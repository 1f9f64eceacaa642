---------------------------- MODULE MCValueFacts ----------------------------
(* Bytes of two bits, so that every leaf and every value is tried. *)
EXTENDS ValueFacts

MCCount(lo, hi) == from_unsigned_range("u32", Interval(lo, hi))

\* One count each, one range that may shift everything out, one that must, and
\* two whose shift to the left is got wrong.
MCCounts == {MCCount(n, n) : n \in 0 .. 4} \cup {MCCount(0, 9), MCCount(4, 6), MCCount(1, 2), MCCount(0, 1)}

\* Types of two widths, so that casts widen and narrow what bits are known.
Bitwise == [types |-> {"u8", "i8", "u16", "i16"}, leaves |-> {"bits"},
            operators |-> {"~", "!", "&", "|", "^", "<<", ">>", "<", "!=", "&&", "||", "cast"}]

\* Every operator on every leaf, as in (x + 1) & 3 and in (x & 3) + 1.
Mixed == [types |-> {"u8", "i8"}, leaves |-> {"bits", "range"},
          operators |-> {"neg", "~", "!", "<<", ">>", "cast"}
                        \cup Arithmetics \cup Bitwises \cup Comparisons]

MCMixes == {Bitwise, Mixed}

===============================================================================
