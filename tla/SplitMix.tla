------------------------------- MODULE SplitMix -------------------------------
(***************************************************************************)
(* The generator of src/src/rng.rs at a small word width: the mix of       *)
(* next_u64, the rejection loop of next_below and the bounded re-roll of   *)
(* next_open_unit, one word drawn a step.  Arithmetic wraps at the width.  *)
(*                                                                         *)
(* A caller keeps calling one of the two draws.  `drawn` and `tally` are   *)
(* its record of the current period, the 2^Width words after which the     *)
(* state is back where it was; they start over with the next period.       *)
(***************************************************************************)
EXTENDS Integers, FiniteSets, Sequences

CONSTANTS
  Width,         \* bits of a word, 64 in the code
  Gamma,         \* the increment of the state
  Multipliers,   \* the two multipliers of the mix
  Shifts,        \* the three shifts of the mix
  MantissaDrop,  \* the low bits next_open_unit discards, 11 in the code
  Seeds,         \* the seeds considered
  Bounds,        \* the n of the next_below(n) considered
  Unit           \* a caller of next_open_unit

\* A shift right by n is a division by this.
PowerOf2[n \in 0..Width] == IF n = 0 THEN 1 ELSE 2 * PowerOf2[n - 1]

Period == PowerOf2[Width]
Word == 0..(Period - 1)
MAX == Period - 1

\* The re-rolls of next_open_unit.
Attempts == 4

ASSUME GeneratorAssumption ==
  /\ Width \in Nat \ {0}
  /\ MantissaDrop \in 0..(Width - 1)
  /\ Gamma \in Word /\ Gamma % 2 = 1
  /\ Multipliers \in [1..2 -> Word] /\ \A i \in 1..2 : Multipliers[i] % 2 = 1
  /\ Shifts \in [1..3 -> 1..(Width - 1)]
  /\ Seeds \subseteq Word
  /\ Bounds \subseteq Word \ {0}
  /\ Unit \notin Word

VARIABLES
  state,     \* the generator's one field
  caller,    \* the n it asks next_below for, or Unit
  pending,   \* is a call under way
  attempts,  \* the words a pending next_open_unit has discarded
  result,    \* what the last call returned; next_open_unit in units of its least value
  drawn,     \* the words of this period
  tally      \* how often next_below returned each value in this period

vars == <<state, caller, pending, attempts, result, drawn, tally>>

-----------------------------------------------------------------------------
(* next_u64 *)

Advance(s) == (s + Gamma) % Period

\* a ^ b: bit for bit, from the highest down, the sum without the carry.
Xor(a, b) ==
  LET high[n \in 0..Width] ==  \* of the n highest bits
        IF n = 0 THEN 0
        ELSE LET drop == PowerOf2[Width - n]
             IN  2 * high[n - 1] + ((a \div drop + b \div drop) % 2)
  IN  high[Width]

\* Mutant of XorShift: the shifted word is added, with its carries.
AddShift(z, shift) == (z + z \div PowerOf2[shift]) % Period

XorShift(z, shift) == Xor(z, z \div PowerOf2[shift])

Mix(z) ==
  LET y == (XorShift(z, Shifts[1]) * Multipliers[1]) % Period
      x == (XorShift(y, Shifts[2]) * Multipliers[2]) % Period
  IN  XorShift(x, Shifts[3])

\* The word next_u64 returns in each state, from state 0 on.  (Appended to the
\* empty sequence it is a sequence to TLC, computed once.)
Stream == <<>> \o [i \in 1..Period |-> Mix(Advance(i - 1))]
NextWord(s) == Stream[s + 1]

\* A fresh record of what a period returned.
NoTally == [r \in IF caller = Unit THEN {} ELSE 0..(caller - 1) |-> 0]

\* One call of next_u64, entered in the record of the period.
Draw ==
  /\ pending
  /\ state' = Advance(state)
  /\ drawn' = (IF drawn = Word THEN {} ELSE drawn) \cup {NextWord(state)}
  /\ UNCHANGED caller

TallySoFar == IF drawn = Word THEN NoTally ELSE tally

-----------------------------------------------------------------------------
(* next_below *)

\* Mutant of Zone: no word is rejected.
WholeZone(n) == Period

\* The words below it are accepted: as many for each remainder.
Zone(n) == MAX - (MAX % n)

BelowAccepted ==
  /\ caller # Unit
  /\ Draw
  /\ NextWord(state) < Zone(caller)
  /\ result' = NextWord(state) % caller
  /\ tally' = [TallySoFar EXCEPT ![result'] = @ + 1]
  /\ pending' = FALSE
  /\ UNCHANGED attempts

\* Mutant of BelowRejected: the rejected word is looked at again.
BelowStuck ==
  /\ caller # Unit
  /\ pending
  /\ NextWord(state) >= Zone(caller)
  /\ UNCHANGED vars

BelowRejected ==
  /\ caller # Unit
  /\ Draw
  /\ NextWord(state) >= Zone(caller)
  /\ tally' = TallySoFar
  /\ UNCHANGED <<pending, attempts, result>>

-----------------------------------------------------------------------------
(* next_open_unit *)

\* The bits of a word that are kept.
Bits(w) == w \div PowerOf2[MantissaDrop]

UnitAccepted ==
  /\ caller = Unit
  /\ Draw
  /\ Bits(NextWord(state)) # 0
  /\ result' = Bits(NextWord(state))
  /\ pending' = FALSE
  /\ attempts' = 0
  /\ UNCHANGED tally

\* Mutant of UnitDiscarded: the last attempt's bits are returned as they are.
UnitWithoutFallback ==
  /\ caller = Unit
  /\ Draw
  /\ Bits(NextWord(state)) = 0
  /\ attempts' = (attempts + 1) % Attempts
  /\ pending' = (attempts' # 0)
  /\ result' = IF attempts' = 0 THEN 0 ELSE result
  /\ UNCHANGED tally

\* Mutant of UnitDiscarded: re-rolls without counting.
UnitUncounted ==
  /\ caller = Unit
  /\ Draw
  /\ Bits(NextWord(state)) = 0
  /\ attempts' = attempts + 1
  /\ UNCHANGED <<pending, result, tally>>

\* A zero is rolled again; after the last attempt the least value stands in.
UnitDiscarded ==
  /\ caller = Unit
  /\ Draw
  /\ Bits(NextWord(state)) = 0
  /\ \/ /\ attempts + 1 < Attempts
        /\ attempts' = attempts + 1
        /\ UNCHANGED <<pending, result>>
     \/ /\ attempts + 1 = Attempts
        /\ attempts' = 0
        /\ pending' = FALSE
        /\ result' = 1
  /\ UNCHANGED tally

-----------------------------------------------------------------------------

\* new(seed), and the first call.
Init ==
  /\ state \in Seeds
  /\ caller \in Bounds \cup {Unit}
  /\ pending = TRUE
  /\ attempts = 0
  /\ result = 0
  /\ drawn = {}
  /\ tally = NoTally

Call ==
  /\ ~pending
  /\ pending' = TRUE
  /\ UNCHANGED <<state, caller, attempts, result, drawn, tally>>

Turn == BelowAccepted \/ BelowRejected \/ UnitAccepted \/ UnitDiscarded

Next == Call \/ Turn

\* A call that is under way goes on: the loops neither wait nor return to the
\* caller between two words.  Nobody has to make a call.
Spec == Init /\ [][Next]_vars /\ WF_vars(Turn)

-----------------------------------------------------------------------------
(* Properties *)

TypeOK ==
  /\ state \in Word
  /\ caller \in Bounds \cup {Unit}
  /\ pending \in BOOLEAN
  /\ attempts \in 0..(Attempts - 1)
  /\ result \in IF caller = Unit THEN 0..Bits(MAX) ELSE 0..(caller - 1)
  /\ drawn \subseteq Word
  /\ tally \in [DOMAIN NoTally -> 0..Period]

\* "the distribution is exact even when n is not a power of two" (rng.rs:74): over
\* the words of a period every value below n is returned equally often; and the
\* rejection costs at most every other word (rng.rs next_below).
ExactOverAPeriod ==
  drawn = Word /\ caller # Unit =>
    \E times \in 1..Period :
      /\ tally = [r \in 0..(caller - 1) |-> times]
      /\ 2 * times * caller >= Period

\* next_open_unit never returns zero, however many zero draws come in a row: the
\* weighted seed pick would then take a point of weight zero (rng.rs
\* next_open_unit).
UnitIsPositive == caller = Unit /\ ~pending => result > 0

\* No word is drawn twice before all have been: the stream does not fall into a
\* shorter cycle, for any seed (rng.rs next_u64).
StreamHasFullPeriod ==
  [][state' # state => NextWord(state) \notin drawn \/ drawn = Word]_vars

\* Every call ends, the rejection loop without a bound included (rng.rs
\* next_below, next_open_unit).
DrawsEnd == pending ~> ~pending
=============================================================================
