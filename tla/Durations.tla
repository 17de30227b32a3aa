------------------------------ MODULE Durations ------------------------------
(***************************************************************************)
(* duration.rs: the restricted ISO 8601 durations a manifest states its    *)
(* cadence and its grace period in, down to the integer they are read as.  *)
(* The characters are gone, the components in their order remain; the      *)
(* arithmetic is that of unsigned integers which refuse to overflow.       *)
(***************************************************************************)
EXTENDS Integers, Sequences

CONSTANTS
  MaxNanos,       \* the greatest u64
  MaxDigits,      \* MAX_FRACTIONAL_DIGITS
  DaySeconds,     \* 86,400
  HourSeconds,    \* 3,600
  MinuteSeconds   \* 60

ASSUME DurationsAssumption ==
  /\ MaxNanos \in Nat /\ MaxDigits \in Nat
  /\ \A s \in {DaySeconds, HourSeconds, MinuteSeconds} : s \in Nat \ {0}

\* what no number is: a component without digits, a part without components
Nothing == -1
Unread  == -2  \* what is read of a duration the grammar refuses

\* number: of a component; digits: after its decimal separator; unit: its
\* designator, "" where the part ends first
Component == [number : Nat \cup {Nothing}, digits : Seq(0..9) \cup {<<Nothing>>}, unit : STRING]

Plain(n, u) == [number |-> n, digits |-> <<Nothing>>, unit |-> u]
Fraction(n, ds) == [number |-> n, digits |-> ds, unit |-> "S"]

\* date, time: the components on either side of T; timed: there is a T
Spellings ==
  {d \in [date : Seq(Component), time : Seq(Component), timed : BOOLEAN] : d.time # <<>> => d.timed}

Spelled(d, t) == [date |-> d, time |-> t, timed |-> t # <<>>]

TenTo[n \in 0..MaxDigits] == IF n = 0 THEN 1 ELSE 10 * TenTo[n - 1]

NanosPerSecond == TenTo[MaxDigits]

\* checked_add, checked_mul
Checked(n) == IF n > MaxNanos THEN Unread ELSE n
CheckedSum(m, n) == IF Unread \in {m, n} THEN Unread ELSE Checked(m + n)
CheckedProduct(m, n) ==
  IF m = Unread THEN Unread ELSE IF n > 0 /\ m > MaxNanos \div n THEN Unread ELSE m * n

-----------------------------------------------------------------------------
\* The number a sequence of digits writes.
Written(ds) ==
  LET upto[n \in 0..Len(ds)] == IF n = 0 THEN 0 ELSE upto[n - 1] * 10 + ds[n] IN upto[Len(ds)]

\* Mutation: the digits are read as they stand, a tenth as a nanosecond.
FractionalNanosBare(ds) == IF Len(ds) \notin 1..MaxDigits THEN Unread ELSE Written(ds)

\* fractional_nanos: padded to the digits of a nanosecond, never rounded.
FractionalNanos(ds) ==
  IF Len(ds) \notin 1..MaxDigits THEN Unread ELSE Written(ds) * TenTo[MaxDigits - Len(ds)]

HasFraction(c) == c.digits # <<Nothing>>

\* take_number: the digits before a designator, at least one.
TakeNumber(c) == IF c.number = Nothing THEN Unread ELSE Checked(c.number)

SecondsOf(u) == CASE u = "D" -> DaySeconds [] u = "H" -> HourSeconds [] u = "M" -> MinuteSeconds [] u = "S" -> 1

\* A component of the part it stands in: in the date only days, and a
\* fraction only of seconds.
ComponentNanos(c, units) ==
  IF c.unit \notin units \/ (HasFraction(c) /\ c.unit # "S") THEN Unread
  ELSE CheckedSum(CheckedProduct(CheckedProduct(TakeNumber(c), SecondsOf(c.unit)), NanosPerSecond),
                  IF HasFraction(c) THEN FractionalNanos(c.digits) ELSE 0)

PartNanos(part, units) ==
  LET upto[n \in 0..Len(part)] ==
        IF n = 0 THEN 0 ELSE CheckedSum(upto[n - 1], ComponentNanos(part[n], units))
  IN upto[Len(part)]

\* parse_time_only_duration.  A date of no length says nothing by itself.
WithDays(d, days) ==
  IF ~d.timed THEN (IF days = 0 THEN Unread ELSE days)
  ELSE IF d.time = <<>> THEN Unread
  ELSE CheckedSum(days, PartNanos(d.time, {"H", "M", "S"}))

ParseDuration(d) == WithDays(d, PartNanos(d.date, {"D"}))

\* A cadence of zero is an obligation no series can meet.
Obligation(c, g) == IF c \in {Unread, 0} \/ g = Unread THEN Unread ELSE c + g

\* Governance::cadence_and_grace_for: what a checkpoint may be old by, or Unread.
CadenceAndGrace(cadence, grace) == Obligation(ParseDuration(cadence), ParseDuration(grace))

-----------------------------------------------------------------------------
(***************************************************************************)
(* The length a duration has on paper, in nanoseconds without bound.       *)
(***************************************************************************)
Total(lengths) ==
  LET upto[n \in 0..Len(lengths)] == IF n = 0 THEN 0 ELSE upto[n - 1] + lengths[n] IN upto[Len(lengths)]

FractionLength(ds) == Total([k \in 1..Len(ds) |-> ds[k] * TenTo[MaxDigits - k]])

ComponentLength(c) ==
  c.number * SecondsOf(c.unit) * NanosPerSecond + (IF HasFraction(c) THEN FractionLength(c.digits) ELSE 0)

PartLength(part) == Total([n \in 1..Len(part) |-> ComponentLength(part[n])])

Length(d) == PartLength(d.date) + PartLength(d.time)

\* What is read of a duration is exactly its length: nothing is wrapped,
\* truncated or rounded, and two spellings of one length are read as one.
Exactly(read, length) == read # Unread => read = length /\ length <= MaxNanos

ReadsExactly(d) == Exactly(ParseDuration(d), Length(d))
=============================================================================
