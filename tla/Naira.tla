------------------------------- MODULE Naira --------------------------------
(* Naira as the API takes and shows them, and kobo as the database has them. *)
(* A number of the program is written here in thousandths, exactly; what     *)
(* binary fractions do to a tie at half a kobo is left out.                  *)
EXTENDS Integers

\* Mutant: the fraction is cut off.
KoboCut(x) == (x * 100) \div 1000

\* Math.round(amount * 100), from thousandths of a naira to whole kobo.
Kobo(x) == (x * 100 + 500) \div 1000

\* formatAmount: Number((n / 100).toFixed(2)), from and to thousandths.
Formatted(n) == 10 * ((n + 500) \div 1000)

=============================================================================
