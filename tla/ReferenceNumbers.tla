-------------------------- MODULE ReferenceNumbers --------------------------
(***************************************************************************)
(* How a tenant's reference numbers are written and read back.  A number   *)
(* is written in one of three formats and padded to a width; the           *)
(* configuration page reads a written number back.                         *)
(*                                                                         *)
(* A text is a sequence of characters, and a character is its value as a   *)
(* base-36 digit: 0..9 are the decimal digits, 10 is the letter A.  The    *)
(* prefix of a form, as in LOG-0017, is the same for all its numbers and   *)
(* holds no digit, so it is left out.                                      *)
(***************************************************************************)
EXTENDS Naturals, Sequences

CONSTANT Letters    \* the letters of the alphabet, 26

ASSUME LettersAssumption == Letters \in 1 .. 26

Formats == {"numeric", "alpha", "alphanumeric"}
LetterA == 10                       \* the character 'A'
Unread  == 0                        \* what a text that cannot be read gives

\* int_to_alpha: 1 is A, 26 is Z, 27 is AA.
IntToAlpha[n \in Nat] ==
    IF n = 0 THEN <<>>
    ELSE Append(IntToAlpha[(n - 1) \div Letters], LetterA + ((n - 1) % Letters))

\* str(n)
Decimal[n \in Nat] ==
    IF n = 0 THEN <<>> ELSE Append(Decimal[n \div 10], n % 10)

\* Mutant: a number that is too long for its width loses its first digits.
PadCutting(s, width, char) ==
    IF Len(s) >= width THEN SubSeq(s, Len(s) - width + 1, Len(s))
    ELSE [i \in 1 .. (width - Len(s)) |-> char] \o s

\* rjust and zfill: pad s on the left to the width, and never cut it.
Pad(s, width, char) ==
    IF Len(s) >= width THEN s ELSE [i \in 1 .. (width - Len(s)) |-> char] \o s

\* Number n as it is written with the given number of digits.
Render(format, digits, n) ==
    CASE format = "numeric" -> Pad(Decimal[n], digits, 0)
      [] format = "alpha"   -> Pad(IntToAlpha[n], digits, LetterA)
      [] format = "alphanumeric" ->
            IntToAlpha[n] \o Pad(Decimal[n], IF digits > 1 THEN digits - 1 ELSE 1, 0)

-----------------------------------------------------------------------------

\* int(text): the value of a run of decimal digits.
Value(s) ==
    LET upTo[i \in 0 .. Len(s)] == IF i = 0 THEN 0 ELSE 10 * upTo[i - 1] + s[i]
    IN  upTo[Len(s)]

IsDigit(c) == c < LetterA

\* The longest suffix of s whose characters are all digits, or all letters.
LastRun(s, digits) ==
    LET from == CHOOSE i \in 1 .. Len(s) + 1 :
                    /\ \A j \in i .. Len(s) : IsDigit(s[j]) = digits
                    /\ i > 1 => IsDigit(s[i - 1]) # digits
    IN  SubSeq(s, from, Len(s))

\* The first number up to the bound that is written as s, padded with A.
ParseAlpha(s, bound) ==
    LET hits == {n \in 1 .. bound : Pad(IntToAlpha[n], Len(s), LetterA) = s}
    IN  IF hits = {} THEN Unread ELSE CHOOSE n \in hits : \A k \in hits : n <= k

\* Mutant: the number is read from as many characters as it should have.
ParseFixed(format, digits, s, bound) ==
    IF format = "alpha" THEN ParseAlpha(s, bound)
    ELSE LET run == LastRun(s, TRUE)
         IN  Value(SubSeq(run, 1, IF Len(run) < digits THEN Len(run) ELSE digits))

\* The number the configuration page reads from text s.
Parse(format, digits, s, bound) ==
    IF format = "alpha" THEN
        IF LastRun(s, FALSE) = <<>> THEN Unread
        ELSE ParseAlpha(LastRun(s, FALSE), bound)
    ELSE IF LastRun(s, TRUE) = <<>> THEN Unread ELSE Value(LastRun(s, TRUE))
=============================================================================
