------------------------------- MODULE Memory -------------------------------
(***************************************************************************)
(* Memory sizes: MemoryMib of src/src/types.rs, its parser and its         *)
(* Display, with the u32 arithmetic of the code.                           *)
(*                                                                         *)
(* A text is a number and a suffix; trimming, case and digits are left     *)
(* out, and a text without a number is NotANumber.  A number is whatever   *)
(* the digits say, also one that no u32 holds.                             *)
(***************************************************************************)
EXTENDS Integers

CONSTANTS U32,    \* how many values a u32 has: 2^32
          GiB     \* MiB in a GiB: 1024

ASSUME UnitAssumption == GiB \in Nat /\ GiB > 1 /\ U32 \in Nat /\ U32 > GiB
\* The bytes in a MiB fit the width: 1024 * 1024 <= 2^32.
ASSUME WidthAssumption == GiB * GiB <= U32

NotANumber == -1
Error == -1

Units == {"gib", "mib", ""}
Texts == [number : Nat \union {NotANumber}, suffix : Units]

Sizes == 1 .. U32 - 1

\* str::parse::<u32>
ParseU32(n) == IF n \in 0 .. U32 - 1 THEN n ELSE Error

Mutant_WrappingMul(n) == (n * GiB) % U32

\* checked_mul(1024)
CheckedMul(n) == IF n * GiB < U32 THEN n * GiB ELSE Error

\* MemoryMib::new
New(mib) == IF mib = 0 THEN Error ELSE mib

\* MemoryMib::parse
Parse(text) ==
  LET n == ParseU32(text.number)
      mib == IF n # Error /\ text.suffix = "gib" THEN CheckedMul(n) ELSE n
  IN  IF mib = Error THEN Error ELSE New(mib)

Mutant_ShowRounds(mib) ==
  IF mib >= GiB THEN [number |-> mib \div GiB, suffix |-> "gib"]
  ELSE [number |-> mib, suffix |-> "mib"]

\* Display
Show(mib) ==
  IF mib >= GiB /\ mib % GiB = 0
    THEN [number |-> mib \div GiB, suffix |-> "gib"]
    ELSE [number |-> mib, suffix |-> "mib"]

Mutant_BytesInU32(mib) == (mib * GiB * GiB) % U32

\* What setMemorySize is given for the VZ configuration, in a u64.  A MiB has
\* as many KiB, and a KiB as many bytes, as a GiB has MiB.
Bytes(mib) == (mib * GiB * GiB) % (U32 * U32)

-----------------------------------------------------------------------------
(* Properties of the functions, for every size and every text.             *)

\* What is shown is read back as the same size: Display loses nothing, and
\* no size that exists is too large to be written in GiB.
RoundTrips(mib) == Parse(Show(mib)) = mib

\* The size a text names, in numbers without a width.
Named(text) == IF text.suffix = "gib" THEN text.number * GiB ELSE text.number

\* Parse gives the size that the text names if a u32 holds it and it is not
\* zero, and an error otherwise: the multiplication never wraps to a size
\* that nobody asked for.
ParsesExactly(text) ==
  Parse(text) = IF text.number \in Nat /\ Named(text) \in Sizes
                  THEN Named(text) ELSE Error
=============================================================================
