--------------------------- MODULE RequestDuration ---------------------------
(***************************************************************************)
(* How long a claim request lives (backend/internal/claimrequests):        *)
(* expires_at is now plus time.Duration(DurationDays) * 24 * time.Hour,    *)
(* and a time.Duration is an int64 of nanoseconds.  DurationDays is any    *)
(* int of at least 1; the table refuses a request that does not end after  *)
(* its creation.                                                           *)
(*                                                                         *)
(* A tick is 2 ^ 13 nanoseconds, of which an hour is a whole number:       *)
(* nanoseconds modulo 2 ^ 64 are ticks modulo 2 ^ 51, and products that    *)
(* wrap one after the other wrap as one.                                   *)
(*                                                                         *)
(* The numbers are out of TLC's range, so this module has proofs and no    *)
(* run.  ClaimLifecycle takes lifetimes from any set of positive numbers:  *)
(* CreatedLives says that those are the ones there are.                    *)
(***************************************************************************)
EXTENDS Integers, TLAPS

HalfWord == 1125899906842624         \* 2 ^ 50 ticks, 2 ^ 63 nanoseconds
Word == 2251799813685248             \* 2 ^ 51 ticks, 2 ^ 64 nanoseconds
Int64 == {n \in Int : -HalfWord <= n /\ n < HalfWord}

Hour == 439453125
Day == 10546875000

(* What int64 arithmetic makes of an integer: two's complement.            *)
Wrapped(n) == IF n % Word < HalfWord THEN n % Word ELSE (n % Word) - Word

Lifetime(days) == Wrapped(days * 24 * Hour)

(* prepareCreateRecord lets any positive number of days pass; the check of *)
(* the table lets those pass that end later than now.  Its clock and the   *)
(* clock of the server are taken as one.                                   *)
Created(days) == days >= 1 /\ Lifetime(days) > 0

(* Wrapping takes whole words off a number and leaves an int64.            *)
LEMMA WrappedByWords ==
  ASSUME NEW n \in Int
  PROVE  /\ Wrapped(n) \in Int64
         /\ \E k \in Int : n = k * Word + Wrapped(n)
<1>1. Word \in Int /\ Word > 0
  BY SMT DEF Word
<1>2. /\ n % Word \in Int /\ 0 <= n % Word /\ n % Word < Word
      /\ n = (n \div Word) * Word + (n % Word) /\ n \div Word \in Int
  BY SMT, <1>1
<1> DEFINE r == n % Word  q == n \div Word
<1> HIDE DEF r, q
<1>3. /\ r \in Int /\ 0 <= r /\ r < Word
      /\ n = q * Word + r /\ q \in Int
      /\ Wrapped(n) = IF r < HalfWord THEN r ELSE r - Word
  BY SMT, <1>2 DEF r, q, Wrapped
<1>4. Wrapped(n) \in Int64
  BY SMT, <1>3 DEF Int64, HalfWord, Word
<1>5. n = q * Word + Wrapped(n) \/ n = (q + 1) * Word + Wrapped(n)
  BY SMT, <1>1, <1>3
<1>6. QED
  BY SMT, <1>3, <1>4, <1>5

(* An int64 that differs from n by whole words is what n wraps to.         *)
LEMMA WrappedUnique ==
  ASSUME NEW n \in Int, NEW m \in Int64, NEW k \in Int, n = k * Word + m
  PROVE  Wrapped(n) = m
<1>1. PICK j \in Int : n = j * Word + Wrapped(n)
  BY SMT, WrappedByWords
<1>2. Wrapped(n) \in Int64
  BY SMT, WrappedByWords
<1>3. (j - k) * Word = m - Wrapped(n) /\ m - Wrapped(n) \in Int
  BY SMT, <1>1, <1>2 DEF Int64, Word
<1>4. -Word < m - Wrapped(n) /\ m - Wrapped(n) < Word
  BY SMT, <1>2 DEF Int64, HalfWord, Word
<1>5. j - k = 0
  BY SMT, <1>3, <1>4 DEF Word
<1>6. QED
  BY SMT, <1>1, <1>2, <1>5 DEF Int64, Word

LEMMA LifetimeInDays ==
  ASSUME NEW days \in Int
  PROVE  Lifetime(days) = Wrapped(days * Day) /\ days * Day \in Int
<1>1. days * 24 * Hour = days * Day /\ days * Day \in Int
  BY SMT DEF Hour, Day
<1>2. QED
  BY SMT, <1>1 DEF Lifetime

(* A request for up to 106751 days, 292 years, is created and lives for as *)
(* many days as it was asked for.                                          *)
THEOREM LifetimeExact ==
  ASSUME NEW days \in Int, 1 <= days, days <= 106751
  PROVE  Created(days) /\ Lifetime(days) = days * Day
<1>1. days * Day \in Int64 /\ days * Day = 0 * Word + days * Day /\ days * Day > 0
  BY SMT DEF Day, Int64, HalfWord, Word
<1>2. Lifetime(days) = days * Day
  BY SMT, <1>1, LifetimeInDays, WrappedUnique
<1>3. QED
  BY SMT, <1>1, <1>2 DEF Created

(* The next as many days again are refused, for they seem to end before    *)
(* they begin: whoever asks for up to 213503 days gets them, or an error.  *)
THEOREM GrantedAsAsked ==
  ASSUME NEW days \in Int, 1 <= days, days <= 213503, Created(days)
  PROVE  Lifetime(days) = days * Day
<1>1. CASE days <= 106751
  BY SMT, <1>1, LifetimeExact
<1>2. CASE days > 106751
  <2>1. days * Day - Word \in Int64 /\ days * Day - Word < 0
    BY SMT, <1>2 DEF Day, Int64, HalfWord, Word
  <2>2. days * Day = 1 * Word + (days * Day - Word)
    BY SMT DEF Day, Word
  <2>3. Lifetime(days) = days * Day - Word
    BY SMT, <2>1, <2>2, LifetimeInDays, WrappedUnique
  <2>4. QED
    BY SMT, <2>1, <2>3 DEF Created, Day, Word
<1>3. QED
  BY SMT, <1>1, <1>2

(* One day more is taken for 186314752 ticks, 25 minutes, and accepted.    *)
THEOREM FirstTooShort == Created(213504) /\ Lifetime(213504) = 186314752
<1>1. 213504 * Day = 1 * Word + 186314752 /\ 186314752 \in Int64
  BY SMT DEF Day, Word, Int64, HalfWord
<1>2. Lifetime(213504) = 186314752
  BY SMT, <1>1, LifetimeInDays, WrappedUnique
<1>3. QED
  BY SMT, <1>2 DEF Created

(* However many days are asked for, a request that is created ends after   *)
(* now, and never later than the days that were asked for.                 *)
THEOREM CreatedLives ==
  ASSUME NEW days \in Int, Created(days)
  PROVE  1 <= Lifetime(days) /\ Lifetime(days) <= days * Day
<1>1. PICK k \in Int : days * Day = k * Word + Lifetime(days)
  BY SMT, WrappedByWords, LifetimeInDays
<1>2. Lifetime(days) \in Int64 /\ Lifetime(days) > 0
  BY SMT, WrappedByWords, LifetimeInDays DEF Created
<1>3. days * Day \in Int /\ days * Day > 0
  BY SMT DEF Day, Created
<1>4. k >= 0
  BY SMT, <1>1, <1>2, <1>3 DEF Int64, HalfWord, Word
<1>5. QED
  BY SMT, <1>1, <1>2, <1>3, <1>4 DEF Int64, Word
=============================================================================
