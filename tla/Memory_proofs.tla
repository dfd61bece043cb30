---------------------------- MODULE Memory_proofs ----------------------------
(***************************************************************************)
(* The functions of Memory are right for every width and every unit, so    *)
(* for 2^32 and 1024, which TLC's integers do not reach.                   *)
(***************************************************************************)
EXTENDS Memory, TLAPS

\* A multiple of the unit is the unit times its quotient.
LEMMA ExactQuotient ==
  ASSUME NEW m \in Nat, m % GiB = 0
  PROVE  m \div GiB \in Nat /\ (m \div GiB) * GiB = m
BY UnitAssumption

\* Display and parse are inverse on every size.
THEOREM ShowParse == \A m \in Sizes : RoundTrips(m)
<1> SUFFICES ASSUME NEW m \in Sizes PROVE Parse(Show(m)) = m
  BY DEF RoundTrips
<1>1. m \in Nat /\ m # 0 /\ m < U32
  BY UnitAssumption DEF Sizes
<1>2. CASE m >= GiB /\ m % GiB = 0
  <2>1. m \div GiB \in Nat /\ (m \div GiB) * GiB = m
    BY <1>1, <1>2, ExactQuotient
  <2>2. m \div GiB < U32
    BY <1>1, <2>1, UnitAssumption
  <2> QED
    BY <1>1, <1>2, <2>1, <2>2, UnitAssumption
    DEF Parse, Show, ParseU32, CheckedMul, New, Error
<1>3. CASE ~(m >= GiB /\ m % GiB = 0)
  BY <1>1, <1>3, UnitAssumption DEF Parse, Show, ParseU32, New, Error
<1> QED
  BY <1>2, <1>3

\* Parse computes the size a text names, without wrapping, for every text.
THEOREM ParseIsExact == \A t \in Texts : ParsesExactly(t)
<1> SUFFICES ASSUME NEW t \in Texts PROVE ParsesExactly(t)
  OBVIOUS
<1>1. CASE t.number = NotANumber
  BY <1>1, UnitAssumption DEF ParsesExactly, Parse, ParseU32, NotANumber, Error
<1>2. CASE t.number \in Nat /\ t.suffix = "gib"
  <2>1. t.number * GiB \in Nat /\ t.number * GiB >= t.number
    BY <1>2, UnitAssumption
  <2>2. t.number = 0 <=> t.number * GiB = 0
    BY <1>2, UnitAssumption
  <2> QED
    BY <1>2, <2>1, <2>2, UnitAssumption
    DEF ParsesExactly, Parse, ParseU32, CheckedMul, New, Error, Named, Sizes
<1>3. CASE t.number \in Nat /\ t.suffix # "gib"
  BY <1>3, UnitAssumption
  DEF ParsesExactly, Parse, ParseU32, New, Error, Named, Sizes
<1> QED
  BY <1>1, <1>2, <1>3 DEF Texts

LEMMA BelowModulus ==
  ASSUME NEW x \in Nat, NEW y \in Nat, x < y
  PROVE  x % y = x
OBVIOUS

LEMMA ProductsGrow ==
  ASSUME NEW a \in Nat, NEW b \in Nat, NEW c \in Nat, NEW d \in Nat, a <= c, b <= d
  PROVE  a * b \in Nat /\ a * b <= c * d
<1>1. a * b <= c * b
  OBVIOUS
<1>2. c * b <= c * d
  OBVIOUS
<1>3. a * b \in Nat /\ c * b \in Nat /\ c * d \in Nat
  OBVIOUS
<1> QED
  BY <1>1, <1>2, <1>3

\* No size in MiB, also the largest that a u32 holds, has more bytes than a
\* u64 holds.
THEOREM BytesAreExact == \A m \in 0 .. U32 - 1 : Bytes(m) = m * GiB * GiB
<1> SUFFICES ASSUME NEW m \in 0 .. U32 - 1 PROVE Bytes(m) = m * GiB * GiB
  OBVIOUS
<1>1. m \in Nat /\ m <= U32 - 1 /\ U32 - 1 \in Nat /\ U32 \in Nat /\ U32 > 0
  BY UnitAssumption
<1>2. GiB \in Nat /\ GiB * GiB \in Nat /\ GiB * GiB <= U32
  BY UnitAssumption, WidthAssumption
<1>3. m * (GiB * GiB) \in Nat /\ m * (GiB * GiB) <= (U32 - 1) * U32
  BY <1>1, <1>2, ProductsGrow
<1>4. m * GiB * GiB = m * (GiB * GiB)
  BY <1>1, <1>2
<1>5. (U32 - 1) * U32 = U32 * U32 - U32 /\ U32 * U32 \in Nat
  BY <1>1
<1>6. m * GiB * GiB \in Nat /\ m * GiB * GiB < U32 * U32
  BY <1>1, <1>3, <1>4, <1>5
<1> QED
  BY <1>5, <1>6, BelowModulus DEF Bytes
=============================================================================
