----------------------------- MODULE OrderKeys ------------------------------
(***************************************************************************)
(* The fractional order keys of internal/order.  A key is a sequence of    *)
(* numbers: a head, the integer digits whose count the head gives, and a   *)
(* fraction.  Comparing keys position by position is comparing the strings *)
(* of the code byte by byte, whose alphabets ascend.                       *)
(***************************************************************************)
EXTENDS Integers, Sequences

CONSTANTS
  Digits,   \* size of the digit alphabet (62 in the code)
  Heads     \* size of the head alphabet (52); the lower half counts downwards

ASSUME OrderKeysAssumption ==
  /\ Digits \in Nat /\ Digits >= 2
  /\ Heads \in Nat /\ Heads >= 2 /\ Heads % 2 = 0

Open == <<>>      \* an open bound
Refused == <<>>   \* the errors of KeyBetween: equal, unordered, invalid, exhausted

Half == Heads \div 2
Drop(s, n) == SubSeq(s, n + 1, Len(s))
Zeros(n) == [i \in 1..n |-> 0]

(* The byte-wise order of two keys. *)
Less(a, b) ==
  \E i \in 1..Len(b) :
    /\ \A j \in 1..(i - 1) : j <= Len(a) /\ a[j] = b[j]
    /\ i > Len(a) \/ a[i] < b[i]

IntegerLength(head) == IF head < Half THEN Half - head + 1 ELSE head - Half + 2
IntegerPart(key) == SubSeq(key, 1, IntegerLength(key[1]))
Fraction(key) == Drop(key, IntegerLength(key[1]))
IntegerZero == <<Half, 0>>
SmallestInteger == Zeros(Half + 1)

Valid(key) ==
  /\ key # <<>> /\ key[1] \in 0..(Heads - 1) /\ IntegerLength(key[1]) <= Len(key)
  /\ Fraction(key) # <<>> => key[Len(key)] # 0

(* How many digits of b a, padded with zeros, begins with. *)
Shared(a, b) ==
  LET Same(i) == b[i] = (IF i <= Len(a) THEN a[i] ELSE 0)
  IN CHOOSE n \in 0..Len(b) : (\A i \in 1..n : Same(i)) /\ (n = Len(b) \/ ~Same(n + 1))

(* A fraction strictly between a and b, where an empty b is open. *)
RECURSIVE Midpoint(_, _)
Midpoint(a, b) ==
  LET n == Shared(a, b)
      low == IF a = <<>> THEN 0 ELSE a[1]
      high == IF b = <<>> THEN Digits ELSE b[1]
  IN CASE n > 0 -> SubSeq(b, 1, n) \o Midpoint(Drop(a, n), Drop(b, n))
       [] n = 0 /\ high - low > 1 -> <<(low + high + 1) \div 2>>
       [] n = 0 /\ high - low <= 1 /\ Len(b) > 1 -> <<b[1]>>
       [] OTHER -> <<low>> \o Midpoint(Drop(a, 1), <<>>)

(* The neighbouring integer part; a carry changes the head and the length.  *)
Carried(x, full, pad, head, by) ==
  LET free == {i \in 2..Len(x) : x[i] # full}
      at == CHOOSE i \in free : \A j \in free : j <= i
  IN IF free # {} THEN [i \in 1..Len(x) |-> IF i < at THEN x[i] ELSE IF i = at THEN x[i] + by ELSE pad]
     ELSE IF x[1] = head THEN Refused
     ELSE <<x[1] + by>> \o [i \in 1..(IntegerLength(x[1] + by) - 1) |-> pad]
Increment(x) == Carried(x, Digits - 1, 0, Heads - 1, 1)
Decrement(x) == Carried(x, 0, Digits - 1, 0, -1)

Before(b) ==
  LET int == IntegerPart(b)
  IN IF int = SmallestInteger THEN int \o Midpoint(<<>>, Fraction(b))
     ELSE IF Less(int, b) THEN int ELSE Decrement(int)
After(a) ==
  LET int == IntegerPart(a)
  IN IF Increment(int) = Refused THEN int \o Midpoint(Fraction(a), <<>>) ELSE Increment(int)
(* Mutant: the next integer is taken although it is not below the bound. *)
WithinNextInteger(a, b) ==
  IF IntegerPart(a) = IntegerPart(b)
  THEN IntegerPart(a) \o Midpoint(Fraction(a), Fraction(b))
  ELSE Increment(IntegerPart(a))
Within(a, b) ==
  LET int == IntegerPart(a)
  IN IF int = IntegerPart(b) THEN int \o Midpoint(Fraction(a), Fraction(b))
     ELSE IF Increment(int) # Refused /\ Less(Increment(int), b) THEN Increment(int)
     ELSE IF Increment(int) = Refused THEN Refused
     ELSE int \o Midpoint(Fraction(a), <<>>)

(* The smallest integer sorts as a key and is refused as a bound. *)
Bound(key) == key = Open \/ (Valid(key) /\ key # SmallestInteger)
KeyBetween(left, right) ==
  CASE ~Bound(left) \/ ~Bound(right) -> Refused
    [] left = Open /\ right = Open -> IntegerZero
    [] left = Open /\ right # Open /\ Bound(right) -> Before(right)
    [] right = Open /\ left # Open /\ Bound(left) -> After(left)
    [] OTHER -> IF Less(left, right) THEN Within(left, right) ELSE Refused
=============================================================================
