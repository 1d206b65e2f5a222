------------------------------- MODULE Printf -------------------------------
(***************************************************************************)
(* The formatted output of utils/printf.c.  A format is a sequence of      *)
(* characters, an argument the word that va_arg reads.  The sizes of the   *)
(* integer types, of the conversion buffers and the default precision are  *)
(* constants (32 bits, 32 characters and 6 in the code); on this target a  *)
(* plain char is unsigned and long is as wide as int.                      *)
(***************************************************************************)
EXTENDS Integers, Sequences, SequencesExt

CONSTANTS CHARBITS, SHORTBITS, INTBITS, LLBITS, \* widths of the integer types
          BUFFER_SIZE,                          \* PRINTF_NTOA_/FTOA_BUFFER_SIZE
          FLOAT_PRECISION,                      \* PRINTF_DEFAULT_FLOAT_PRECISION
          FUNIT,                                \* a double is a multiple of 1/FUNIT
          Calls                                 \* [fmt, args, count]: calls of snprintf_

ASSUME PrintfAssumption ==
  /\ {CHARBITS, SHORTBITS, INTBITS, LLBITS, BUFFER_SIZE, FUNIT} \subseteq Nat \ {0}
  /\ CHARBITS <= SHORTBITS /\ SHORTBITS <= INTBITS /\ INTBITS <= LLBITS

NUL == "NUL"
Digits == <<"0", "1", "2", "3", "4", "5", "6", "7", "8", "9">>
IsDigit(c) == \E i \in 1 .. 10 : Digits[i] = c
FlagOf == [c \in {"0", "-", "+", " ", "#"} |->
             CASE c = "0" -> "ZEROPAD" [] c = "-" -> "LEFT" [] c = "+" -> "PLUS"
               [] c = " " -> "SPACE" [] c = "#" -> "HASH"]

Times(c, n) == [i \in 1 .. n |-> c]
Keep(s, n) == SubSeq(s, 1, IF n < Len(s) THEN n ELSE Len(s))
AtLeast0(n) == IF n < 0 THEN 0 ELSE n
Wrap(v, bits) == v % 2^bits
AsSigned(v, bits) == IF v >= 2^(bits - 1) THEN v - 2^bits ELSE v

(***************************************************************************)
(* Conversions.  buf holds a number with its last digit first.             *)
(***************************************************************************)
OutRev(buf, width, flags) ==
  LET pad == Times(" ", AtLeast0(width - Len(buf)))
  IN  (IF flags \cap {"LEFT", "ZEROPAD"} = {} THEN pad ELSE <<>>)
      \o Reverse(buf) \o (IF "LEFT" \in flags THEN pad ELSE <<>>)

\* Appends to buf while it has room.
Room(buf, chars) == Keep(buf \o chars, BUFFER_SIZE)
PadZeros(buf, n) == Room(buf, Times("0", AtLeast0(n - Len(buf))))
Sign(negative, flags) ==
  IF negative THEN <<"-">> ELSE IF "PLUS" \in flags THEN <<"+">>
  ELSE IF "SPACE" \in flags THEN <<" ">> ELSE <<>>

\* Mutant: a place is kept for a sign that is not printed.
SignedWidthAlways(negative, width, flags) == IF width # 0 THEN width - 1 ELSE width

\* The width left for the digits: one less for a sign behind zeros.
SignedWidth(negative, width, flags) ==
  IF width # 0 /\ (negative \/ flags \cap {"PLUS", "SPACE"} # {}) THEN width - 1 ELSE width

\* The prefix of %#x, %#o and %#b takes the place of digits when these fill the
\* width or the precision exactly.
Hash(buf, base, prec, width, flags) ==
  LET full == "PRECISION" \notin flags /\ Len(buf) # 0 /\ Len(buf) \in {prec, width}
      drop == IF ~full THEN 0 ELSE IF base = 16 /\ Len(buf) > 1 THEN 2 ELSE 1
      kept == SubSeq(buf, 1, Len(buf) - drop)
      mark == IF base = 16 THEN <<IF "UPPERCASE" \in flags THEN "X" ELSE "x">>
              ELSE IF base = 2 THEN <<"b">> ELSE <<>>
  IN  Room(Room(kept, mark), <<"0">>)

NtoaFormat(buf, negative, base, prec, width, flags) ==
  LET right  == "LEFT" \notin flags
      zero   == "ZEROPAD" \in flags
      w      == IF right /\ zero THEN SignedWidth(negative, width, flags) ELSE width
      padded == IF ~right THEN buf
                ELSE PadZeros(PadZeros(buf, prec), IF zero THEN w ELSE 0)
      hashed == IF "HASH" \in flags THEN Hash(padded, base, prec, w, flags) ELSE padded
  IN  OutRev(Room(hashed, Sign(negative, flags)), w, flags)

DigitChar(d, flags) ==
  IF d < 10 THEN Digits[d + 1]
  ELSE (IF "UPPERCASE" \in flags THEN <<"A", "B", "C", "D", "E", "F">>
                                 ELSE <<"a", "b", "c", "d", "e", "f">>)[d - 9]
NumDigits(value, base) ==
  IF value = 0 THEN 1 ELSE CHOOSE n \in 1 .. LLBITS : base^(n - 1) <= value /\ value < base^n

Ntoa(value, negative, base, prec, width, flags) ==
  LET shown == IF "PRECISION" \in flags /\ value = 0 THEN 0 ELSE NumDigits(value, base)
      buf   == Room(<<>>, [i \in 1 .. shown |->
                            DigitChar((value \div base^(i - 1)) % base, flags)])
      fl    == IF value = 0 THEN flags \ {"HASH"} ELSE flags
  IN  NtoaFormat(buf, negative, base, prec, width, fl)

(***************************************************************************)
(* %f.  Doubles are exact multiples of 1/FUNIT, which covers the halfway   *)
(* cases the code looks for; a double that is not finite or too large is   *)
(* out of the model, and so is %e.                                         *)
(***************************************************************************)
\* Mutant: rounding up the fraction never reaches the whole part.
RoundFracNoCarry(whole, tmp, prec) ==
  LET frac == tmp \div FUNIT
      diff == 2 * (tmp % FUNIT)
  IN  IF diff > FUNIT THEN <<whole, (frac + 1) % 10^prec>>
      ELSE <<whole, IF diff = FUNIT /\ (frac = 0 \/ frac % 2 = 1) THEN frac + 1 ELSE frac>>

\* tmp is the fraction in units of the last digit, times FUNIT.  A fraction that
\* is rounded up beyond all nines carries, one that is exactly halfway does not.
RoundFrac(whole, tmp, prec) ==
  LET frac == tmp \div FUNIT
      diff == 2 * (tmp % FUNIT)
  IN  IF diff > FUNIT
      THEN IF frac + 1 >= 10^prec THEN <<whole + 1, 0>> ELSE <<whole, frac + 1>>
      ELSE <<whole, IF diff = FUNIT /\ (frac = 0 \/ frac % 2 = 1) THEN frac + 1 ELSE frac>>

Decimal(n) == [i \in 1 .. NumDigits(n, 10) |-> Digits[1 + ((n \div 10^(i - 1)) % 10)]]

\* The digits of the fraction, filled up to prec; the count of missing ones wraps
\* when the fraction has more than prec digits, and zeros fill the buffer.
FracDigits(buf, frac, prec) ==
  LET digits == Decimal(frac)
      missing == IF Len(digits) > prec THEN BUFFER_SIZE ELSE prec - Len(digits)
  IN  Room(Room(buf, digits), Times("0", missing) \o <<".">>)

Ftoa(value, precision, width, flags) ==
  LET negative == value < 0
      v     == IF negative THEN -value ELSE value
      prec0 == IF "PRECISION" \in flags THEN precision ELSE FLOAT_PRECISION
      extra == Room(<<>>, Times("0", AtLeast0(prec0 - 9)))
      prec  == prec0 - Len(extra)
      r     == RoundFrac(v \div FUNIT, (v % FUNIT) * 10^prec, prec)
      \* Without digits after the point an odd number and a half are rounded up.
      whole == IF prec = 0 /\ 2 * (v - r[1] * FUNIT) >= FUNIT /\ r[1] % 2 = 1
               THEN r[1] + 1 ELSE r[1]
      body  == Room(IF prec = 0 THEN extra ELSE FracDigits(extra, r[2], prec), Decimal(whole))
      zero  == flags \cap {"LEFT", "ZEROPAD"} = {"ZEROPAD"}
      w     == IF zero THEN SignedWidth(negative, width, flags) ELSE width
  IN  OutRev(Room(IF zero THEN PadZeros(body, w) ELSE body, Sign(negative, flags)), w, flags)

(***************************************************************************)
(* Directives: %[flags][width][.precision][length]specifier.  A parser     *)
(* takes what is left of a format and says how much of it it consumed.     *)
(***************************************************************************)
Prefix(s, P(_)) == CHOOSE n \in 0 .. Len(s) :
                     /\ \A i \in 1 .. n : P(s[i])
                     /\ n = Len(s) \/ ~P(s[n + 1])
From(s, n) == SubSeq(s, n + 1, Len(s))
First(s) == IF s = <<>> THEN NUL ELSE s[1]

Atoi(s) == FoldLeft(LAMBDA n, c : 10 * n + (CHOOSE d \in 0 .. 9 : Digits[d + 1] = c), 0, s)

\* A number or, for "*", an argument: [val, used, args].
Field(s, args) ==
  LET n == Prefix(s, IsDigit)
  IN  IF n > 0 THEN [val |-> Atoi(SubSeq(s, 1, n)), used |-> n, args |-> args]
      ELSE IF First(s) = "*"
      THEN [val |-> AsSigned(Head(args), INTBITS), used |-> 1, args |-> Tail(args)]
      ELSE [val |-> 0, used |-> 0, args |-> args]

LengthField(s) ==
  CASE First(s) = "l" -> IF First(From(s, 1)) = "l" THEN <<{"LONG", "LONG_LONG"}, 2>> ELSE <<{"LONG"}, 1>>
    [] First(s) = "h" -> IF First(From(s, 1)) = "h" THEN <<{"SHORT", "CHAR"}, 2>> ELSE <<{"SHORT"}, 1>>
    [] First(s) = "j" -> <<{"LONG_LONG"}, 1>>
    [] First(s) \in {"t", "z"} -> <<{"LONG"}, 1>>
    [] OTHER -> <<{}, 0>>

Parse(s, args) ==
  LET nflags == Prefix(s, LAMBDA c : c \in DOMAIN FlagOf)
      flags  == {FlagOf[s[i]] : i \in 1 .. nflags}
      w      == Field(From(s, nflags), args)
      s1     == From(s, nflags + w.used)
      dot    == First(s1) = "."
      p      == IF dot THEN Field(From(s1, 1), w.args) ELSE [val |-> 0, used |-> 0, args |-> w.args]
      s2     == From(s1, IF dot THEN 1 + p.used ELSE 0)
      l      == LengthField(s2)
  IN  [flags |-> flags \cup l[1] \cup (IF w.val < 0 THEN {"LEFT"} ELSE {})
                       \cup (IF dot THEN {"PRECISION"} ELSE {}),
       width |-> IF w.val < 0 THEN -w.val ELSE w.val,
       prec  |-> AtLeast0(p.val),
       spec  |-> First(From(s2, l[2])),
       rest  |-> From(s2, l[2] + 1),
       args  |-> p.args]

IntBase(spec) == CASE spec \in {"x", "X"} -> 16 [] spec = "o" -> 8 [] spec = "b" -> 2
                   [] OTHER -> 10

\* Mutant: the argument is not cut to the length field.
IntArgUncut(d, word) == IF d.spec \in {"d", "i"} THEN AsSigned(Wrap(word, LLBITS), LLBITS) ELSE Wrap(word, LLBITS)

\* The value that the length field leaves of the argument; a plain char has no
\* sign here, so %hhd never prints a negative number.
IntArg(d, word) ==
  LET signed == d.spec \in {"d", "i"}
      V(bits) == IF signed THEN AsSigned(Wrap(word, bits), bits) ELSE Wrap(word, bits)
  IN  CASE "LONG_LONG" \in d.flags -> V(LLBITS)
        [] "LONG" \in d.flags -> V(INTBITS)
        [] "CHAR" \in d.flags -> Wrap(word, CHARBITS)
        [] "SHORT" \in d.flags -> V(SHORTBITS)
        [] OTHER -> V(INTBITS)

IntFlags(d) ==
  (d.flags \cup (IF d.spec = "X" THEN {"UPPERCASE"} ELSE {}))
  \ ((IF IntBase(d.spec) = 10 THEN {"HASH"} ELSE {})
     \cup (IF d.spec \in {"d", "i"} THEN {} ELSE {"PLUS", "SPACE"})
     \cup (IF "PRECISION" \in d.flags THEN {"ZEROPAD"} ELSE {}))

IntOut(d, word) ==
  LET v == IntArg(d, word)
  IN  Ntoa(IF v < 0 THEN -v ELSE v, v < 0, IntBase(d.spec), d.prec, d.width, IntFlags(d))

\* %s stops at the end of the string or at the precision.
StrOut(d, str) ==
  LET n   == IF "PRECISION" \in d.flags /\ d.prec < Len(str) THEN d.prec ELSE Len(str)
      pad == Times(" ", AtLeast0(d.width - n))
  IN  IF "LEFT" \in d.flags THEN SubSeq(str, 1, n) \o pad ELSE pad \o SubSeq(str, 1, n)

PtrOut(d, word) ==
  Ntoa(Wrap(word, INTBITS), FALSE, 16, d.prec, INTBITS \div 4, d.flags \cup {"ZEROPAD", "UPPERCASE"})

\* The characters a directive writes, and the arguments it leaves.
Converted(d) ==
  CASE d.spec \in {"d", "i", "u", "x", "X", "o", "b"} -> <<IntOut(d, Head(d.args)), Tail(d.args)>>
    [] d.spec \in {"f", "F"} -> <<Ftoa(Head(d.args), d.prec, d.width, d.flags), Tail(d.args)>>
    [] d.spec \in {"c", "s"} -> <<StrOut([d EXCEPT !.flags = IF d.spec = "c" THEN @ \ {"PRECISION"} ELSE @],
                                         Head(d.args)), Tail(d.args)>>
    [] d.spec = "p" -> <<PtrOut(d, Head(d.args)), Tail(d.args)>>
    [] OTHER -> <<<<d.spec>>, d.args>>
-----------------------------------------------------------------------------
(***************************************************************************)
(* _vsnprintf: one step per character or directive of the format.          *)
(***************************************************************************)
VARIABLES phase,    \* "idle", "running" or "returned"
          call,     \* the arguments of the call
          fmt,      \* what is left of the format
          va,       \* what is left of the arguments
          idx,      \* characters produced, the value returned in the end
          cells     \* the characters written to the buffer

printfVars == <<phase, call, fmt, va, idx, cells>>

NoCall == [fmt |-> <<>>, args |-> <<>>, count |-> 0]

PrintfInit == phase = "idle" /\ call = NoCall /\ fmt = <<>> /\ va = <<>> /\ idx = 0 /\ cells = <<>>

Snprintf ==
  /\ phase = "idle" /\ phase' = "running"
  /\ \E c \in Calls : call' = c /\ fmt' = c.fmt /\ va' = c.args
  /\ UNCHANGED <<idx, cells>>

\* Mutant: the last cell is not kept for the terminator of a longer text.
OutBufferUnchecked(chars) == cells' = cells \o Keep(chars, AtLeast0(call.count + 1 - idx))

\* out(): a character whose index is not below maxlen is dropped.  Cells are
\* written in order, so the buffer is the sequence of what was kept.
OutBuffer(chars) == cells' = cells \o Keep(chars, AtLeast0(call.count - idx))

Emit(chars) == OutBuffer(chars) /\ idx' = idx + Len(chars)

Literal ==
  /\ phase = "running" /\ fmt # <<>> /\ Head(fmt) # "%"
  /\ Emit(<<Head(fmt)>>)
  /\ fmt' = Tail(fmt)
  /\ UNCHANGED <<phase, call, va>>

Directive ==
  /\ phase = "running" /\ fmt # <<>> /\ Head(fmt) = "%"
  /\ LET d == Parse(Tail(fmt), va)
         c == Converted(d)
     IN  Emit(c[1]) /\ fmt' = d.rest /\ va' = c[2]
  /\ UNCHANGED <<phase, call>>

\* The terminator goes to the last cell of a buffer that is full; with maxlen 0
\* its index is the largest size_t and it is dropped.
Terminate ==
  /\ phase = "running" /\ fmt = <<>> /\ phase' = "returned"
  /\ LET at == IF idx < call.count THEN idx ELSE call.count - 1
     IN  cells' = IF at < 0 THEN cells
                  ELSE Keep(cells, at) \o <<NUL>> \o SubSeq(cells, at + 2, Len(cells))
  /\ UNCHANGED <<call, fmt, va, idx>>

NextCall ==
  /\ phase = "returned" /\ phase' = "idle"
  /\ call' = NoCall /\ va' = <<>> /\ idx' = 0 /\ cells' = <<>>
  /\ UNCHANGED fmt

PrintfNext == Snprintf \/ Literal \/ Directive \/ Terminate \/ NextCall
-----------------------------------------------------------------------------
(***************************************************************************)
(* Properties, of a call that has returned.                                *)
(***************************************************************************)
Text == SelectSeq(cells, LAMBDA c : c # NUL)
IntSpecs == {"d", "i", "u", "x", "X", "o", "b"}

\* The directive of a call whose format is one directive with a specifier of
\* specs and whose text fits, if it is such a call.
Single(specs) ==
  {d \in IF phase = "returned" /\ call.count > idx /\ call.fmt # <<>> /\ Head(call.fmt) = "%"
         THEN {Parse(Tail(call.fmt), call.args)} ELSE {} : d.rest = <<>> /\ d.spec \in specs}

\* snprintf_ writes no cell beyond count; a buffer that is not empty ends in a
\* terminator behind as much of the text as fits, and what is returned is the
\* length of the whole text, whatever the buffer holds: the same call with a
\* buffer that is large enough returns the same.
BufferRespected ==
  /\ Len(cells) <= call.count
  /\ (phase = "returned" /\ call.count > 0) =>
       /\ Len(cells) = 1 + (IF idx < call.count THEN idx ELSE call.count - 1)
       /\ cells[Len(cells)] = NUL /\ NUL \notin Range(Front(cells))

\* A directive fills at least the width it asks for, with or without a sign or a
\* prefix, as long as zeros are not asked to fill more than the buffer holds.
WidthHonoured ==
  \A d \in Single(IntSpecs \cup {"f", "F", "s", "c"}) :
    \/ idx >= d.width
    \/ "ZEROPAD" \in d.flags /\ d.width > BUFFER_SIZE

\* The value of a text of digits in a base, spaces left out.
CharValue(c) == CHOOSE d \in 0 .. 15 : c \in {DigitChar(d, {}), DigitChar(d, {"UPPERCASE"})}
ValueOf(s, base) ==
  LET t == SelectSeq(s, LAMBDA c : c \notin {" ", "+", "-"})
      n == FoldLeft(LAMBDA v, c : v * base + CharValue(c), 0, t)
  IN  IF "-" \in Range(s) THEN -n ELSE n

\* What an integer conversion prints reads back as its argument, cut to the
\* length field; a plain char has no sign here.  Two things spoil it: the
\* prefix of "#", which overwrites digits that fill the width, and a sign that
\* finds the buffer full.
ReadsBack ==
  \A d \in {e \in Single(IntSpecs) : "HASH" \notin e.flags} :
  \A value \in {ValueOf(Text, IntBase(d.spec))} :
    LET bits  == IF "LONG_LONG" \in d.flags THEN LLBITS ELSE IF "CHAR" \in d.flags THEN CHARBITS
                 ELSE IF "SHORT" \in d.flags THEN SHORTBITS ELSE INTBITS
        least == IF d.spec \in {"d", "i"} /\ "CHAR" \notin d.flags THEN -2^(bits - 1) ELSE 0
    IN  \/ d.prec >= BUFFER_SIZE \/ d.width >= BUFFER_SIZE
        \/ /\ value \in least .. least + 2^bits - 1
           /\ (value - Head(d.args)) % 2^bits = 0

\* %f prints the decimal number nearest to its argument, carrying into the whole
\* part; only the exact half above a fraction of nines is not carried.
FloatNearest ==
  \A d \in Single({"f", "F"}) : \A shown \in {ValueOf(SelectSeq(Text, LAMBDA c : c # "."), 10)} :
    LET prec  == IF "PRECISION" \in d.flags THEN d.prec ELSE FLOAT_PRECISION
        value == Head(d.args)
        error == 2 * (shown * FUNIT - value * 10^prec)
        nines == LET v == (IF value < 0 THEN -value ELSE value) * 10^prec
                 IN  prec > 0 /\ 2 * (v % (10^prec * FUNIT)) = (2 * 10^prec - 1) * FUNIT
    IN  nines \/ prec > 9 \/ d.width >= BUFFER_SIZE \/ (-FUNIT <= error /\ error <= FUNIT)

\* What snprintf_ leaves in the buffer: within its bounds, as wide as asked for,
\* and the value of the argument.
TextExact == BufferRespected /\ WidthHonoured /\ ReadsBack /\ FloatNearest
=============================================================================
