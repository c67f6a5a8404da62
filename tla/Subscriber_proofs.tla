-------------------------- MODULE Subscriber_proofs --------------------------
(***************************************************************************)
(* Theorems of Subscriber, for every set of lengths a packet can have, and *)
(* of the packet codec, for every length there is.  Steps with large       *)
(* numbers name SMT, since Zenon writes a number in unary.                 *)
(***************************************************************************)
EXTENDS Subscriber, SequenceTheorems, TLAPS

-----------------------------------------------------------------------------
(* The codec.                                                              *)

\* The bytes of a length, written out for each of the four sizes.
Form(n) ==
  IF n < 128 THEN <<n>>
  ELSE IF n < 16384 THEN <<(n % 128) + 128, n \div 128>>
  ELSE IF n < 2097152 THEN <<(n % 128) + 128, ((n \div 128) % 128) + 128, n \div 16384>>
  ELSE <<(n % 128) + 128, ((n \div 128) % 128) + 128, ((n \div 16384) % 128) + 128, n \div 2097152>>

\* the set unfolded once, so that no prover has to enumerate it
LEMMA LengthBound ==
  ASSUME NEW n
  PROVE  n \in Lengths <=> n \in Nat /\ n <= MaxLength
<1>1. MaxLength \in Nat
  BY SMT DEF MaxLength
<1> QED BY <1>1, SMT DEF Lengths

LEMMA Forms ==
  ASSUME NEW n \in Nat
  PROVE  /\ n < 128 => Form(n) = <<n>>
         /\ n >= 128 /\ n < 16384 => Form(n) = <<(n % 128) + 128, n \div 128>>
         /\ n >= 16384 /\ n < 2097152
              => Form(n) = <<(n % 128) + 128, ((n \div 128) % 128) + 128, n \div 16384>>
         /\ n >= 2097152
              => Form(n) = <<(n % 128) + 128, ((n \div 128) % 128) + 128,
                             ((n \div 16384) % 128) + 128, n \div 2097152>>
BY SMT DEF Form

\* the digits of a length in base 128, and how many of them there are
LEMMA Quotient ==
  ASSUME NEW n \in Lengths
  PROVE  /\ n \div 128 \in Nat /\ n \div 128 <= MaxLength
         /\ n \div 128 < 2097152
         /\ n \div 16384 \in Nat /\ n \div 16384 < 16384
         /\ n \div 2097152 \in Nat /\ n \div 2097152 < 128
         /\ n % 128 \in 0 .. 127
         /\ (n \div 128) % 128 \in 0 .. 127
         /\ (n \div 16384) % 128 \in 0 .. 127
         /\ (n \div 128) \div 128 = n \div 16384
         /\ (n \div 128) \div 16384 = n \div 2097152
         /\ n < 128 => n % 128 = n
         /\ n < 16384 => n \div 128 < 128
         /\ n < 2097152 => n \div 128 < 16384
         /\ n < 2097152 => n \div 16384 < 128
         /\ n >= 128 => n \div 128 >= 1
         /\ n >= 16384 => n \div 128 >= 128
         /\ n >= 2097152 => n \div 128 >= 16384
<1>0. n \in Nat /\ n <= 268435455
  BY LengthBound, SMT DEF MaxLength
<1>1. n \div 128 \in Nat /\ n \div 128 <= MaxLength
  BY <1>0, SMT DEF MaxLength
<1>2. n \div 128 < 2097152
  BY <1>0, SMT
<1>3. n \div 16384 \in Nat /\ n \div 16384 < 16384
  BY <1>0, SMT
<1>4. n \div 2097152 \in Nat /\ n \div 2097152 < 128
  BY <1>0, SMT
<1>5. n % 128 \in 0 .. 127
  BY <1>0, SMT
<1>6. (n \div 128) % 128 \in 0 .. 127
  BY <1>0, SMT
<1>7. (n \div 16384) % 128 \in 0 .. 127
  BY <1>0, SMT
<1>8. (n \div 128) \div 128 = n \div 16384
  BY <1>0, SMT
<1>9. (n \div 128) \div 16384 = n \div 2097152
  BY <1>0, SMT
<1>10. n < 128 => n % 128 = n
  BY <1>0, SMT
<1>11. n < 16384 => n \div 128 < 128
  BY <1>0, SMT
<1>12. n < 2097152 => n \div 128 < 16384
  BY <1>0, SMT
<1>13. n < 2097152 => n \div 16384 < 128
  BY <1>0, SMT
<1>14. n >= 128 => n \div 128 >= 1
  BY <1>0, SMT
<1>15. n >= 16384 => n \div 128 >= 128
  BY <1>0, SMT
<1>16. n >= 2097152 => n \div 128 >= 16384
  BY <1>0, SMT
<1> QED BY <1>1, <1>2, <1>3, <1>4, <1>5, <1>6, <1>7, <1>8, <1>9, <1>10, <1>11, <1>12, <1>13, <1>14, <1>15, <1>16, SMT

\* one byte before a sequence of bytes
LEMMA Prefixed ==
  ASSUME NEW a \in Nat, NEW s \in Seq(Nat), NEW t \in Seq(Nat),
         Len(t) = Len(s) + 1, t[1] = a, \A i \in 1 .. Len(s) : t[i + 1] = s[i]
  PROVE  <<a>> \o s = t
<1>1. <<a>> \in Seq(Nat) /\ Len(<<a>>) = 1 /\ <<a>>[1] = a
  OBVIOUS
<1>2. /\ <<a>> \o s \in Seq(Nat) /\ Len(<<a>> \o s) = 1 + Len(s)
      /\ \A i \in 1 .. 1 + Len(s) :
           (<<a>> \o s)[i] = IF i <= 1 THEN <<a>>[i] ELSE s[i - 1]
  BY <1>1, ConcatProperties
<1>3. Len(s) \in Nat
  OBVIOUS
<1>4. ASSUME NEW i \in 1 .. Len(t)
      PROVE  (<<a>> \o s)[i] = t[i]
  <2>1. CASE i = 1
    BY <2>1, <1>1, <1>2, <1>3
  <2>2. CASE i # 1
    <3>1. i \in Nat /\ i - 1 \in 1 .. Len(s) /\ (i - 1) + 1 = i /\ i \in 1 .. 1 + Len(s)
      BY <2>2, <1>3
    <3>2. (<<a>> \o s)[i] = s[i - 1]
      BY <3>1, <2>2, <1>2
    <3>3. t[(i - 1) + 1] = s[i - 1]
      BY <3>1
    <3> QED BY <3>1, <3>2, <3>3
  <2> QED BY <2>1, <2>2
<1> QED BY <1>2, <1>3, <1>4, SeqEqual

LEMMA Prefixed1 ==
  ASSUME NEW a \in Nat, NEW b \in Nat
  PROVE  <<a>> \o <<b>> = <<a, b>>
<1>1. PICK s : s = <<b>>
  OBVIOUS
<1>2. PICK t : t = <<a, b>>
  OBVIOUS
<1>3. s \in Seq(Nat) /\ Len(s) = 1
  BY <1>1
<1>4. t \in Seq(Nat) /\ Len(t) = 1 + 1 /\ t[1] = a
  BY <1>2
<1>5. \A i \in 1 .. 1 : t[i + 1] = s[i]
  BY <1>1, <1>2
<1>6. <<a>> \o s = t
  BY <1>3, <1>4, <1>5, Prefixed
<1> QED BY <1>1, <1>2, <1>6

LEMMA Prefixed2 ==
  ASSUME NEW a \in Nat, NEW b \in Nat, NEW c \in Nat
  PROVE  <<a>> \o <<b, c>> = <<a, b, c>>
<1>1. PICK s : s = <<b, c>>
  OBVIOUS
<1>2. PICK t : t = <<a, b, c>>
  OBVIOUS
<1>3. s \in Seq(Nat) /\ Len(s) = 2
  BY <1>1
<1>4. t \in Seq(Nat) /\ Len(t) = 2 + 1 /\ t[1] = a
  BY <1>2
<1>5. \A i \in 1 .. 2 : t[i + 1] = s[i]
  BY <1>1, <1>2
<1>6. <<a>> \o s = t
  BY <1>3, <1>4, <1>5, Prefixed
<1> QED BY <1>1, <1>2, <1>6

LEMMA Prefixed3 ==
  ASSUME NEW a \in Nat, NEW b \in Nat, NEW c \in Nat, NEW d \in Nat
  PROVE  <<a>> \o <<b, c, d>> = <<a, b, c, d>>
<1>1. PICK s : s = <<b, c, d>>
  OBVIOUS
<1>2. PICK t : t = <<a, b, c, d>>
  OBVIOUS
<1>3. s \in Seq(Nat) /\ Len(s) = 3
  BY <1>1
<1>4. t \in Seq(Nat) /\ Len(t) = 3 + 1 /\ t[1] = a
  BY <1>2
<1>5. \A i \in 1 .. 3 : t[i + 1] = s[i]
  BY <1>1, <1>2
<1>6. <<a>> \o s = t
  BY <1>3, <1>4, <1>5, Prefixed
<1> QED BY <1>1, <1>2, <1>6

\* a turn of encodeRemainingLength: a byte, and the rest of the length
LEMMA FormStep ==
  ASSUME NEW n \in Lengths, n >= 128
  PROVE  Form(n) = <<(n % 128) + 128>> \o Form(n \div 128)
<1>1. n \in Nat /\ n \div 128 \in Nat
  BY LengthBound, Quotient, SMT
<1>a. PICK a \in Nat : a = (n % 128) + 128
  BY <1>1, SMT
<1>2. CASE n < 16384
  <2>b. PICK b \in Nat : b = n \div 128
    BY <1>1, SMT
  <2>1. Form(n \div 128) = <<b>>
    BY <1>1, <1>2, <2>b, Forms, Quotient, SMT
  <2>2. Form(n) = <<a, b>>
    BY <1>1, <1>a, <1>2, <2>b, Forms, SMT
  <2>3. <<a>> \o <<b>> = <<a, b>>
    BY Prefixed1, Zenon
  <2> QED BY <2>1, <2>2, <2>3, <1>a, Zenon
<1>3. CASE n >= 16384 /\ n < 2097152
  <2>b. PICK b \in Nat : b = ((n \div 128) % 128) + 128
    BY <1>1, SMT
  <2>c. PICK c \in Nat : c = n \div 16384
    BY <1>1, SMT
  <2>1. Form(n \div 128) = <<b, c>>
    BY <1>1, <1>3, <2>b, <2>c, Forms, Quotient, SMT
  <2>2. Form(n) = <<a, b, c>>
    BY <1>1, <1>a, <1>3, <2>b, <2>c, Forms, SMT
  <2>3. <<a>> \o <<b, c>> = <<a, b, c>>
    BY Prefixed2, Zenon
  <2> QED BY <2>1, <2>2, <2>3, <1>a, Zenon
<1>4. CASE n >= 2097152
  <2>b. PICK b \in Nat : b = ((n \div 128) % 128) + 128
    BY <1>1, SMT
  <2>c. PICK c \in Nat : c = ((n \div 16384) % 128) + 128
    BY <1>1, SMT
  <2>d. PICK d \in Nat : d = n \div 2097152
    BY <1>1, SMT
  <2>1. Form(n \div 128) = <<b, c, d>>
    BY <1>1, <1>4, <2>b, <2>c, <2>d, Forms, Quotient, SMT
  <2>2. Form(n) = <<a, b, c, d>>
    BY <1>1, <1>a, <1>4, <2>b, <2>c, <2>d, Forms, SMT
  <2>3. <<a>> \o <<b, c, d>> = <<a, b, c, d>>
    BY Prefixed3, Zenon
  <2> QED BY <2>1, <2>2, <2>3, <1>a, Zenon
<1> QED BY <1>1, <1>2, <1>3, <1>4, SMT

\* the recursion of the encoding has a solution, so it may be unfolded
LEMMA BytesUnfold ==
  Bytes = [n \in Lengths |->
             IF n < 128 THEN <<n>> ELSE <<(n % 128) + 128>> \o Bytes[n \div 128]]
<1>1. \E rest : rest = [n \in Lengths |->
                          IF n < 128 THEN <<n>> ELSE <<(n % 128) + 128>> \o rest[n \div 128]]
  <2>1. PICK rest : rest = [n \in Lengths |-> Form(n)]
    OBVIOUS
  <2>2. ASSUME NEW n \in Lengths
        PROVE  rest[n] = IF n < 128 THEN <<n>> ELSE <<(n % 128) + 128>> \o rest[n \div 128]
    <3>0. n \in Nat /\ n \div 128 \in Lengths
      BY Quotient, LengthBound, SMT
    <3>1. rest[n] = Form(n) /\ rest[n \div 128] = Form(n \div 128)
      BY <2>1, <3>0
    <3>2. CASE n < 128
      BY <3>0, <3>1, <3>2, Forms, SMT
    <3>3. CASE n >= 128
      <4>1. Form(n) = <<(n % 128) + 128>> \o Form(n \div 128)
        BY <3>3, FormStep
      <4>2. ~(n < 128)
        BY <3>0, <3>3, SMT
      <4> QED BY <3>1, <4>1, <4>2, Zenon
    <3> QED BY <3>0, <3>2, <3>3, SMT
  <2>3. rest = [n \in Lengths |-> rest[n]]
    BY <2>1, SMT
  <2>4. rest = [n \in Lengths |->
                  IF n < 128 THEN <<n>> ELSE <<(n % 128) + 128>> \o rest[n \div 128]]
    BY <2>2, <2>3, Zenon
  <2> QED BY <2>4, Zenon
<1> QED BY <1>1, Zenon DEF Bytes

LEMMA BytesStep ==
  ASSUME NEW n \in Lengths
  PROVE  /\ n < 128 => Encoded(n) = <<n>>
         /\ n >= 128 => Encoded(n) = <<(n % 128) + 128>> \o Encoded(n \div 128)
<1>1. Bytes[n] = IF n < 128 THEN <<n>> ELSE <<(n % 128) + 128>> \o Bytes[n \div 128]
  BY BytesUnfold, Zenon
<1> QED BY <1>1, LengthBound, SMT DEF Encoded

\* it ends after four bytes, as a length has four digits at most
LEMMA EncodedForm ==
  ASSUME NEW n \in Lengths
  PROVE  Encoded(n) = Form(n)
<1>1. ASSUME NEW m \in Lengths, m < 128
      PROVE  Encoded(m) = Form(m)
  <2>1. Encoded(m) = <<m>>
    BY <1>1, BytesStep
  <2>2. Form(m) = <<m>>
    BY <1>1, LengthBound, Forms, SMT
  <2> QED BY <2>1, <2>2
<1>2. ASSUME NEW m \in Lengths, m >= 128, Encoded(m \div 128) = Form(m \div 128)
      PROVE  Encoded(m) = Form(m)
  <2>1. Encoded(m) = <<(m % 128) + 128>> \o Encoded(m \div 128)
    BY <1>2, BytesStep
  <2>2. Form(m) = <<(m % 128) + 128>> \o Form(m \div 128)
    BY <1>2, FormStep
  <2> QED BY <2>1, <2>2, <1>2, Zenon
<1>3. ASSUME NEW m \in Lengths
      PROVE  m \in Nat /\ m \div 128 \in Lengths
  BY LengthBound, Quotient, SMT
<1>4. ASSUME NEW m \in Lengths, m < 16384
      PROVE  Encoded(m) = Form(m)
  <2>1. m \div 128 < 128
    BY <1>4, Quotient, SMT
  <2> QED BY <2>1, <1>1, <1>2, <1>3, SMT
<1>5. ASSUME NEW m \in Lengths, m < 2097152
      PROVE  Encoded(m) = Form(m)
  <2>1. m \div 128 < 16384
    BY <1>5, Quotient, SMT
  <2> QED BY <2>1, <1>1, <1>2, <1>3, <1>4, SMT
<1>6. n \div 128 < 2097152
  BY Quotient, SMT
<1> QED BY <1>6, <1>1, <1>2, <1>3, <1>5, SMT

LEMMA StandardForm ==
  ASSUME NEW n \in Lengths
  PROVE  StandardLength(n) = Form(n)
<1>0. n \in Nat /\ n <= 268435455
  BY LengthBound, SMT DEF MaxLength
<1>1. CASE n < 128
  <2>1. BytesFor(n) = 1
    BY <1>0, <1>1, SMT DEF BytesFor, Weight
  <2>2. StandardLength(n) = [i \in 1 .. 1 |->
                               ((n \div Weight[i]) % 128) + (IF i < 1 THEN 128 ELSE 0)]
    BY <2>1 DEF StandardLength
  <2> QED BY <2>2, <1>0, <1>1, Forms, Quotient, SMT DEF Weight
<1>2. CASE n >= 128 /\ n < 16384
  <2>1. BytesFor(n) = 2
    BY <1>0, <1>2, SMT DEF BytesFor, Weight
  <2>2. StandardLength(n) = [i \in 1 .. 2 |->
                               ((n \div Weight[i]) % 128) + (IF i < 2 THEN 128 ELSE 0)]
    BY <2>1 DEF StandardLength
  <2> QED BY <2>2, <1>0, <1>2, Forms, Quotient, SMT DEF Weight
<1>3. CASE n >= 16384 /\ n < 2097152
  <2>1. BytesFor(n) = 3
    BY <1>0, <1>3, SMT DEF BytesFor, Weight
  <2>2. StandardLength(n) = [i \in 1 .. 3 |->
                               ((n \div Weight[i]) % 128) + (IF i < 3 THEN 128 ELSE 0)]
    BY <2>1 DEF StandardLength
  <2>3. Weight[1] = 1 /\ Weight[2] = 128 /\ Weight[3] = 16384
    BY SMT DEF Weight
  <2>4. n \div 1 = n /\ (n \div 16384) % 128 = n \div 16384
    BY <1>0, <1>3, SMT
  <2>5. StandardLength(n) = <<(n % 128) + 128, ((n \div 128) % 128) + 128, n \div 16384>>
    BY <2>2, <2>3, <2>4, <1>0, SMT
  <2> QED BY <2>5, <1>0, <1>3, Forms, SMT
<1>4. CASE n >= 2097152
  <2>1. BytesFor(n) = 4
    BY <1>0, <1>4, SMT DEF BytesFor, Weight
  <2>2. StandardLength(n) = [i \in 1 .. 4 |->
                               ((n \div Weight[i]) % 128) + (IF i < 4 THEN 128 ELSE 0)]
    BY <2>1 DEF StandardLength
  <2>3. Weight[1] = 1 /\ Weight[2] = 128 /\ Weight[3] = 16384 /\ Weight[4] = 2097152
    BY SMT DEF Weight
  <2>4. n \div 1 = n /\ (n \div 2097152) % 128 = n \div 2097152
    BY <1>0, SMT
  <2>5. StandardLength(n) = <<(n % 128) + 128, ((n \div 128) % 128) + 128,
                              ((n \div 16384) % 128) + 128, n \div 2097152>>
    BY <2>2, <2>3, <2>4, <1>0, SMT
  <2> QED BY <2>5, <1>0, <1>4, Forms, SMT
<1> QED BY <1>0, <1>1, <1>2, <1>3, <1>4, SMT

\* readRemainingLength adds up the digits
LEMMA FormDecoded ==
  ASSUME NEW n \in Lengths
  PROVE  WellFormed(Form(n)) /\ Decoded(Form(n)) = n
<1>0. n \in Nat
  BY LengthBound, SMT
<1>a. PICK a \in Nat : a = n % 128 /\ a < 128
  BY Quotient, SMT
<1>b. PICK b \in Nat : b = (n \div 128) % 128 /\ b < 128
  BY Quotient, SMT
<1>c. PICK c \in Nat : c = (n \div 16384) % 128 /\ c < 128
  BY Quotient, SMT
<1>d. PICK d \in Nat : d = n \div 2097152 /\ d < 128
  BY Quotient, SMT
<1>e. /\ n = a + 128 * (n \div 128)
      /\ n \div 128 = b + 128 * (n \div 16384)
      /\ n \div 16384 = c + 128 * d
  BY <1>0, <1>a, <1>b, <1>c, <1>d, SMT
<1>1. CASE n < 128
  <2>1. Form(n) = <<n>>
    BY <1>0, <1>1, Forms, SMT
  <2>2. DOMAIN Form(n) = 1 .. 1
    BY <2>1, SMT
  <2>3. n = a
    BY <1>0, <1>1, <1>a, <1>b, <1>c, <1>d, <1>e, SMT
  <2>4. Form(n)[1] = a
    BY <1>0, <1>1, <2>1, <1>a, <1>b, <1>c, <1>d, Quotient, SMT
  <2>5. WellFormed(Form(n))
    BY <2>2, <2>4, <1>a, <1>b, <1>c, <1>d, SMT DEF WellFormed, Ends
  <2>6. Turn(Form(n), 1) = a * 1
    BY <2>4, <1>a, <1>b, <1>c, <1>d, SMT DEF Turn, Weight
  <2>7. Turn(Form(n), 2) = 0
    BY <2>4, <1>a, <1>b, <1>c, <1>d, SMT DEF Turn, Weight
  <2>8. Turn(Form(n), 3) = 0
    BY <2>4, <1>a, <1>b, <1>c, <1>d, SMT DEF Turn, Weight
  <2>9. Turn(Form(n), 4) = 0
    BY <2>4, <1>a, <1>b, <1>c, <1>d, SMT DEF Turn, Weight
  <2> QED BY <2>3, <2>5, <2>6, <2>7, <2>8, <2>9, SMT DEF Decoded
<1>2. CASE n >= 128 /\ n < 16384
  <2>1. Form(n) = <<(n % 128) + 128, n \div 128>>
    BY <1>0, <1>2, Forms, SMT
  <2>2. DOMAIN Form(n) = 1 .. 2
    BY <2>1, SMT
  <2>3. n = a + 128 * b
    BY <1>0, <1>2, <1>a, <1>b, <1>c, <1>d, <1>e, SMT
  <2>4. Form(n)[1] = a + 128 /\ Form(n)[2] = b
    BY <1>0, <1>2, <2>1, <1>a, <1>b, <1>c, <1>d, Quotient, SMT
  <2>5. WellFormed(Form(n))
    BY <2>2, <2>4, <1>a, <1>b, <1>c, <1>d, SMT DEF WellFormed, Ends
  <2>6. Turn(Form(n), 1) = a * 1
    BY <2>4, <1>a, <1>b, <1>c, <1>d, SMT DEF Turn, Weight
  <2>7. Turn(Form(n), 2) = b * 128
    BY <2>4, <1>a, <1>b, <1>c, <1>d, SMT DEF Turn, Weight
  <2>8. Turn(Form(n), 3) = 0
    BY <2>4, <1>a, <1>b, <1>c, <1>d, SMT DEF Turn, Weight
  <2>9. Turn(Form(n), 4) = 0
    BY <2>4, <1>a, <1>b, <1>c, <1>d, SMT DEF Turn, Weight
  <2> QED BY <2>3, <2>5, <2>6, <2>7, <2>8, <2>9, SMT DEF Decoded
<1>3. CASE n >= 16384 /\ n < 2097152
  <2>1. Form(n) = <<(n % 128) + 128, ((n \div 128) % 128) + 128, n \div 16384>>
    BY <1>0, <1>3, Forms, SMT
  <2>2. DOMAIN Form(n) = 1 .. 3
    BY <2>1, SMT
  <2>3. n = a + 128 * b + 16384 * c
    BY <1>0, <1>3, <1>a, <1>b, <1>c, <1>d, <1>e, SMT
  <2>4. Form(n)[1] = a + 128 /\ Form(n)[2] = b + 128 /\ Form(n)[3] = c
    BY <1>0, <1>3, <2>1, <1>a, <1>b, <1>c, <1>d, Quotient, SMT
  <2>5. WellFormed(Form(n))
    BY <2>2, <2>4, <1>a, <1>b, <1>c, <1>d, SMT DEF WellFormed, Ends
  <2>6. Turn(Form(n), 1) = a * 1
    BY <2>4, <1>a, <1>b, <1>c, <1>d, SMT DEF Turn, Weight
  <2>7. Turn(Form(n), 2) = b * 128
    BY <2>4, <1>a, <1>b, <1>c, <1>d, SMT DEF Turn, Weight
  <2>8. Turn(Form(n), 3) = c * 16384
    BY <2>4, <1>a, <1>b, <1>c, <1>d, SMT DEF Turn, Weight
  <2>9. Turn(Form(n), 4) = 0
    BY <2>4, <1>a, <1>b, <1>c, <1>d, SMT DEF Turn, Weight
  <2> QED BY <2>3, <2>5, <2>6, <2>7, <2>8, <2>9, SMT DEF Decoded
<1>4. CASE n >= 2097152
  <2>1. Form(n) = <<(n % 128) + 128, ((n \div 128) % 128) + 128, ((n \div 16384) % 128) + 128,
                    n \div 2097152>>
    BY <1>0, <1>4, Forms, SMT
  <2>2. DOMAIN Form(n) = 1 .. 4
    BY <2>1, SMT
  <2>3. n = a + 128 * b + 16384 * c + 2097152 * d
    BY <1>0, <1>4, <1>a, <1>b, <1>c, <1>d, <1>e, SMT
  <2>4. Form(n)[1] = a + 128 /\ Form(n)[2] = b + 128 /\ Form(n)[3] = c + 128 /\ Form(n)[4] = d
    BY <1>0, <1>4, <2>1, <1>a, <1>b, <1>c, <1>d, Quotient, SMT
  <2>5. WellFormed(Form(n))
    BY <2>2, <2>4, <1>a, <1>b, <1>c, <1>d, SMT DEF WellFormed, Ends
  <2>6. Turn(Form(n), 1) = a * 1
    BY <2>4, <1>a, <1>b, <1>c, <1>d, SMT DEF Turn, Weight
  <2>7. Turn(Form(n), 2) = b * 128
    BY <2>4, <1>a, <1>b, <1>c, <1>d, SMT DEF Turn, Weight
  <2>8. Turn(Form(n), 3) = c * 16384
    BY <2>4, <1>a, <1>b, <1>c, <1>d, SMT DEF Turn, Weight
  <2>9. Turn(Form(n), 4) = d * 2097152
    BY <2>4, <1>a, <1>b, <1>c, <1>d, SMT DEF Turn, Weight
  <2> QED BY <2>3, <2>5, <2>6, <2>7, <2>8, <2>9, SMT DEF Decoded
<1> QED BY <1>0, <1>1, <1>2, <1>3, <1>4, SMT

-----------------------------------------------------------------------------
\* encodeRemainingLength writes what the standard says, and
\* readRemainingLength reads it back: for all 268435456 lengths.
THEOREM CodecRoundTrips ==
  \A n \in Lengths : RoundTrips(n)
BY EncodedForm, StandardForm, FormDecoded, Zenon DEF RoundTrips

-----------------------------------------------------------------------------
(* The subscriber.                                                         *)

\* what the broker may put on the way
Packet ==
  {Plain("connack"), Plain("suback"), Plain("other"), TooLong}
    \cup {Publish(n, id) : n \in Length, id \in BOOLEAN}

IInv == TypeOK /\ wire \in Seq(Packet)

LEMMA PublishPacket ==
  ASSUME NEW p \in Packet, p.type = "publish"
  PROVE  p.size \in Length /\ p.id \in BOOLEAN /\ p.bytes = StandardLength(p.size)
<1>1. PICK n \in Length, id \in BOOLEAN : p = Publish(n, id)
  BY DEF Packet, Plain, TooLong
<1> QED BY <1>1 DEF Publish

LEMMA MessageRead ==
  ASSUME NEW p \in Packet, p.type = "publish"
  PROVE  Decoded(p.bytes) = p.size
<1>1. p.size \in Lengths /\ p.bytes = StandardLength(p.size)
  BY PublishPacket, SubscriberAssumption
<1> QED BY <1>1, StandardForm, FormDecoded, Zenon

\* TypeOK says of the wire what its type does
LEMMA WireTyped ==
  ASSUME NEW w \in Seq(Packet)
  PROVE  \A i \in DOMAIN w :
           w[i] \in {Plain("connack"), Plain("suback"), Plain("other"), TooLong}
                      \cup {Publish(n, id) : n \in Length, id \in BOOLEAN}
<1>1. \A i \in DOMAIN w : w[i] \in Packet
  OBVIOUS
<1> QED BY <1>1 DEF Packet

LEMMA InitIInv == Init => IInv
<1> SUFFICES ASSUME Init PROVE IInv
  OBVIOUS
<1>1. wire \in Seq(Packet)
  BY EmptySeq DEF Init
<1>2. cancelled = FALSE /\ pc = "dial" /\ msg = NONE /\ link = "none" /\ stage = "none"
  BY DEF Init
<1>3. wire = <<>>
  BY DEF Init
<1>4. msg \in Message \cup {NONE} /\ (msg # NONE <=> pc = "handle")
  BY <1>2
<1>5. \A i \in DOMAIN wire :
        wire[i] \in {Plain("connack"), Plain("suback"), Plain("other"), TooLong}
                      \cup {Publish(n, id) : n \in Length, id \in BOOLEAN}
  BY <1>1, WireTyped
<1>6. cancelled \in BOOLEAN
  BY <1>2
<1>7. pc \in {"dial", "connack", "suback", "read", "handle", "ack", "wait", "stopped"}
  BY <1>2
<1>8. link \in {"none", "up", "closed"}
  BY <1>2
<1>9. stage \in {"none", "connect", "accepted", "subscribe", "serve"}
  BY <1>2
<1>10. pc \in {"dial", "wait", "stopped"} => link = "none" /\ wire = <<>>
  BY <1>2, <1>3
<1> QED BY <1>1, <1>4, <1>5, <1>6, <1>7, <1>8, <1>9, <1>10 DEF TypeOK, IInv

LEMMA ArrivesIInv ==
  ASSUME IInv, NEW p \in Packet, Arrives(p),
         stage' \in {"none", "connect", "accepted", "subscribe", "serve"}
  PROVE  IInv'
<1>1. wire' \in Seq(Packet)
  BY AppendProperties DEF IInv, Arrives
<1>2. pc \notin {"dial", "wait", "stopped"}
  BY DEF IInv, TypeOK, Arrives
<1> QED BY <1>1, <1>2, WireTyped DEF IInv, TypeOK, Arrives

LEMMA LeaveIInv ==
  ASSUME IInv, Leave
  PROVE  IInv'
<1>1. pc' \in {"wait", "stopped"}
  BY DEF Leave, AfterError
<1>2. wire' \in Seq(Packet)
  BY EmptySeq DEF Leave
<1> QED BY <1>1, <1>2, WireTyped, SubscriberAssumption DEF IInv, TypeOK, Leave

\* a packet is taken off the wire
LEMMA ReadIInv ==
  ASSUME IInv, NEW to, Read(to)
  PROVE  wire' \in Seq(Packet) /\ Head(wire) \in Packet
BY HeadTailProperties DEF IInv, Read

LEMMA ClientIInv ==
  ASSUME IInv, ClientTurn
  PROVE  IInv'
<1> USE SubscriberAssumption
<1>1. CASE Dial
  BY <1>1 DEF Dial, IInv, TypeOK
<1>2. CASE DialFail \/ ReadFail \/ ReadEOF \/ AckFail
  BY <1>2, LeaveIInv DEF DialFail, ReadFail, ReadEOF, AckFail
<1>3. CASE ReadConnack \/ ReadSuback \/ ReadSkip
  <2>1. PICK to \in {"suback", "read"} : Read(to) /\ pc \in {"connack", "suback", "read"}
    BY <1>3 DEF ReadConnack, ReadSuback, ReadSkip
  <2>2. wire' \in Seq(Packet)
    BY <2>1, ReadIInv
  <2>3. msg' = msg /\ stage' \in {"none", "connect", "accepted", "subscribe", "serve"}
    BY <1>3 DEF ReadConnack, ReadSuback, ReadSkip, IInv, TypeOK
  <2> QED BY <2>1, <2>2, <2>3, WireTyped DEF IInv, TypeOK, Read
<1>4. CASE ReadMessage
  <2>1. Read("handle") /\ IsMessage(Head(wire)) /\ pc = "read" /\ stage' = stage
        /\ msg' = [length |-> Decoded(Head(wire).bytes), id |-> Head(wire).id]
    BY <1>4 DEF ReadMessage
  <2>2. wire' \in Seq(Packet) /\ Head(wire) \in Packet /\ Head(wire).type = "publish"
    BY <2>1, ReadIInv DEF IsMessage
  <2>3. Decoded(Head(wire).bytes) \in Length /\ Head(wire).id \in BOOLEAN
    BY <2>2, MessageRead, PublishPacket
  <2>4. msg' \in Message /\ msg' # NONE
    BY <2>1, <2>3 DEF Message
  <2> QED BY <2>1, <2>2, <2>4, WireTyped DEF IInv, TypeOK, Read
<1>5. CASE HandlerReturn
  BY <1>5 DEF HandlerReturn, IInv, TypeOK
<1>6. CASE Ack \/ Retry \/ Stop
  BY <1>6 DEF Ack, Retry, Stop, IInv, TypeOK
<1> QED BY <1>1, <1>2, <1>3, <1>4, <1>5, <1>6 DEF ClientTurn

LEMMA NextIInv ==
  ASSUME IInv, [Next]_vars
  PROVE  IInv'
<1>1. CASE BrokerAccept \/ BrokerGrant
  <2>1. PICK p \in Packet : Arrives(p)
    BY <1>1 DEF BrokerAccept, BrokerGrant, Packet
  <2> QED BY <1>1, <2>1, ArrivesIInv DEF BrokerAccept, BrokerGrant
<1>2. ASSUME NEW n \in Length, NEW id \in BOOLEAN, BrokerPublish(n, id)
      PROVE  IInv'
  <2>1. Publish(n, id) \in Packet
    BY DEF Packet
  <2> QED BY <1>2, <2>1, ArrivesIInv DEF BrokerPublish
<1>3. CASE BrokerOther
  <2>1. PICK p \in Packet : Arrives(p)
    BY <1>3 DEF BrokerOther, Packet
  <2>2. stage' \in {"connect", "subscribe", "serve"}
    BY <1>3 DEF BrokerOther
  <2> QED BY <2>1, <2>2, ArrivesIInv
<1>4. CASE BrokerClose
  <2>1. PICK k \in 0 .. Len(wire) : wire' = SubSeq(wire, 1, k)
    BY <1>4 DEF BrokerClose
  <2>2. \A i \in 1 .. k : wire[i] \in Packet
    BY <2>1 DEF IInv
  <2>3. wire' \in Seq(Packet)
    BY <2>1, <2>2, SubSeqProperties DEF IInv
  <2>4. pc \notin {"dial", "wait", "stopped"}
    BY <1>4 DEF BrokerClose, IInv, TypeOK
  <2> QED BY <1>4, <2>3, <2>4, WireTyped DEF BrokerClose, IInv, TypeOK
<1>5. CASE ClientTurn
  BY <1>5, ClientIInv
<1>6. CASE Cancel
  BY <1>6 DEF Cancel, IInv, TypeOK
<1>7. CASE Watch
  BY <1>7, EmptySeq, WireTyped DEF Watch, IInv, TypeOK
<1>8. CASE UNCHANGED vars
  BY <1>8 DEF vars, IInv, TypeOK
<1> QED BY <1>1, <1>2, <1>3, <1>4, <1>5, <1>6, <1>7, <1>8 DEF Next

LEMMA Inductive == Spec => []IInv
<1>1. IInv /\ [Next]_vars => IInv'
  BY NextIInv
<1> QED BY InitIInv, <1>1, PTL DEF Spec

\* Run waits and returns only with its connection closed and its message done
\* with, for any lengths of messages and any number of packets on the way.
THEOREM TypeCorrect == Spec => []TypeOK
<1>1. IInv => TypeOK
  BY DEF IInv
<1> QED BY Inductive, <1>1, PTL

\* Whatever lengths the broker sends, what the client encodes and reads back
\* is what is on the way.
THEOREM AllLengthsRoundTrip == Spec => []LengthsRoundTrip
<1>1. ASSUME IInv, NEW i \in DOMAIN wire, wire[i].type = "publish"
      PROVE  wire[i].bytes = Encoded(wire[i].size) /\ RoundTrips(wire[i].size)
  <2>1. wire[i] \in Packet
    BY <1>1 DEF IInv
  <2>2. wire[i].size \in Lengths /\ wire[i].bytes = StandardLength(wire[i].size)
    BY <1>1, <2>1, PublishPacket, SubscriberAssumption
  <2>3. RoundTrips(wire[i].size)
    BY <2>2, CodecRoundTrips
  <2> QED BY <2>2, <2>3 DEF RoundTrips
<1>2. IInv => LengthsRoundTrip
  BY <1>1 DEF LengthsRoundTrip
<1> QED BY Inductive, <1>2, PTL

-----------------------------------------------------------------------------
(* Delivery.                                                               *)

LEMMA SentTyped ==
  ASSUME NEW p \in Packet
  PROVE  Sent(p) \in Message \cup {NONE}
<1>1. CASE p.type = "publish"
  BY <1>1, PublishPacket DEF Sent, Message
<1>2. CASE p.type # "publish"
  BY <1>2 DEF Sent
<1> QED BY <1>1, <1>2

LEMMA InboxTyped ==
  ASSUME NEW w \in Seq(Packet)
  PROVE  /\ Inbox(w) \in Seq(Message \cup {NONE})
         /\ Len(Inbox(w)) = Len(w)
         /\ \A i \in 1 .. Len(w) : Inbox(w)[i] = Sent(w[i])
<1>1. DOMAIN w = 1 .. Len(w) /\ Len(w) \in Nat /\ \A i \in 1 .. Len(w) : w[i] \in Packet
  OBVIOUS
<1>2. Inbox(w) = [i \in 1 .. Len(w) |-> Sent(w[i])]
  BY <1>1 DEF Inbox
<1>3. \A i \in 1 .. Len(w) : Sent(w[i]) \in Message \cup {NONE}
  BY <1>1, SentTyped
<1> QED BY <1>1, <1>2, <1>3

LEMMA InboxOfNone == Inbox(<<>>) = <<>>
BY DEF Inbox

\* the inbox goes with the wire, when a packet comes, is read, or a tail is lost
LEMMA InboxAppend ==
  ASSUME NEW w \in Seq(Packet), NEW p \in Packet
  PROVE  Inbox(Append(w, p)) = Append(Inbox(w), Sent(p))
<1>1. Append(w, p) \in Seq(Packet) /\ Len(Append(w, p)) = Len(w) + 1 /\ Len(w) \in Nat
  BY AppendProperties
<1>2. \A i \in 1 .. Len(w) : Append(w, p)[i] = w[i]
  BY AppendProperties
<1>3. Append(w, p)[Len(w) + 1] = p
  BY AppendProperties
<1>4. /\ Append(Inbox(w), Sent(p)) \in Seq(Message \cup {NONE})
      /\ Len(Append(Inbox(w), Sent(p))) = Len(w) + 1
      /\ \A i \in 1 .. Len(w) : Append(Inbox(w), Sent(p))[i] = Sent(w[i])
      /\ Append(Inbox(w), Sent(p))[Len(w) + 1] = Sent(p)
  BY InboxTyped, SentTyped, AppendProperties
<1>5. /\ Inbox(Append(w, p)) \in Seq(Message \cup {NONE})
      /\ Len(Inbox(Append(w, p))) = Len(w) + 1
      /\ \A i \in 1 .. Len(w) + 1 : Inbox(Append(w, p))[i] = Sent(Append(w, p)[i])
  BY <1>1, InboxTyped
<1>6. ASSUME NEW i \in 1 .. Len(w) + 1
      PROVE  Inbox(Append(w, p))[i] = Append(Inbox(w), Sent(p))[i]
  <2>1. CASE i = Len(w) + 1
    BY <2>1, <1>1, <1>3, <1>4, <1>5
  <2>2. CASE i # Len(w) + 1
    <3>1. i \in 1 .. Len(w)
      BY <2>2, <1>1
    <3> QED BY <3>1, <1>2, <1>4, <1>5
  <2> QED BY <2>1, <2>2
<1> QED BY <1>4, <1>5, <1>6, SeqEqual

LEMMA InboxTail ==
  ASSUME NEW w \in Seq(Packet), w # <<>>
  PROVE  /\ Inbox(w) # <<>>
         /\ Head(Inbox(w)) = Sent(Head(w))
         /\ Inbox(Tail(w)) = Tail(Inbox(w))
<1>1. Len(w) \in Nat \ {0}
  BY EmptySeq
<1>2. Inbox(w) \in Seq(Message \cup {NONE}) /\ Len(Inbox(w)) = Len(w)
  BY InboxTyped
<1>3. Inbox(w) # <<>>
  BY <1>1, <1>2
<1>4. Head(Inbox(w)) = Sent(Head(w))
  BY <1>1, <1>2, <1>3, InboxTyped
<1>5. /\ Tail(w) \in Seq(Packet) /\ Len(Tail(w)) = Len(w) - 1
      /\ \A i \in 1 .. Len(w) - 1 : Tail(w)[i] = w[i + 1]
  BY HeadTailProperties
<1>6. /\ Tail(Inbox(w)) \in Seq(Message \cup {NONE}) /\ Len(Tail(Inbox(w))) = Len(w) - 1
      /\ \A i \in 1 .. Len(w) - 1 : Tail(Inbox(w))[i] = Inbox(w)[i + 1]
  BY <1>2, <1>3, HeadTailProperties
<1>7. /\ Inbox(Tail(w)) \in Seq(Message \cup {NONE}) /\ Len(Inbox(Tail(w))) = Len(w) - 1
      /\ \A i \in 1 .. Len(w) - 1 : Inbox(Tail(w))[i] = Sent(Tail(w)[i])
  BY <1>5, InboxTyped
<1>8. ASSUME NEW i \in 1 .. Len(w) - 1
      PROVE  Inbox(Tail(w))[i] = Tail(Inbox(w))[i]
  <2>1. i + 1 \in 1 .. Len(w)
    BY <1>1
  <2>2. Inbox(w)[i + 1] = Sent(w[i + 1])
    BY <2>1, InboxTyped
  <2> QED BY <2>2, <1>5, <1>6, <1>7
<1>9. Inbox(Tail(w)) = Tail(Inbox(w))
  BY <1>6, <1>7, <1>8, SeqEqual
<1> QED BY <1>3, <1>4, <1>9

LEMMA InboxPrefix ==
  ASSUME NEW w \in Seq(Packet), NEW k \in 0 .. Len(w)
  PROVE  Inbox(SubSeq(w, 1, k)) = SubSeq(Inbox(w), 1, k)
<1>1. Len(w) \in Nat /\ k \in Int /\ k <= Len(w) /\ \A i \in 1 .. k : i \in 1 .. Len(w)
  OBVIOUS
<1>2. /\ SubSeq(w, 1, k) \in Seq(Packet)
      /\ Len(SubSeq(w, 1, k)) = IF 1 <= k THEN k - 1 + 1 ELSE 0
      /\ \A i \in 1 .. k - 1 + 1 : SubSeq(w, 1, k)[i] = w[1 + i - 1]
  <2>1. \A i \in 1 .. k : w[i] \in Packet
    BY <1>1
  <2> QED BY <2>1, <1>1, SubSeqProperties
<1>3. /\ SubSeq(Inbox(w), 1, k) \in Seq(Message \cup {NONE})
      /\ Len(SubSeq(Inbox(w), 1, k)) = IF 1 <= k THEN k - 1 + 1 ELSE 0
      /\ \A i \in 1 .. k - 1 + 1 : SubSeq(Inbox(w), 1, k)[i] = Inbox(w)[1 + i - 1]
  <2>1. \A i \in 1 .. k : Inbox(w)[i] \in Message \cup {NONE}
    BY <1>1, InboxTyped
  <2> QED BY <2>1, <1>1, SubSeqProperties
<1>4. Len(SubSeq(w, 1, k)) = k /\ Len(SubSeq(Inbox(w), 1, k)) = k
  BY <1>1, <1>2, <1>3
<1>5. /\ Inbox(SubSeq(w, 1, k)) \in Seq(Message \cup {NONE})
      /\ Len(Inbox(SubSeq(w, 1, k))) = k
      /\ \A i \in 1 .. k : Inbox(SubSeq(w, 1, k))[i] = Sent(SubSeq(w, 1, k)[i])
  BY <1>2, <1>4, InboxTyped
<1>6. ASSUME NEW i \in 1 .. k
      PROVE  Inbox(SubSeq(w, 1, k))[i] = SubSeq(Inbox(w), 1, k)[i]
  <2>1. SubSeq(w, 1, k)[i] = w[i] /\ SubSeq(Inbox(w), 1, k)[i] = Inbox(w)[i]
    BY <1>1, <1>2, <1>3
  <2>2. Inbox(w)[i] = Sent(w[i])
    BY <1>1, InboxTyped
  <2> QED BY <2>1, <2>2, <1>5
<1> QED BY <1>3, <1>4, <1>5, <1>6, SeqEqual

\* all that is on the way is lost
LEMMA LoseAll ==
  ASSUME IInv, wire' = <<>>, msg' = msg
  PROVE  D!Lose
<1>1. Inbox(wire) \in Seq(Message \cup {NONE}) /\ Len(Inbox(wire)) \in Nat
  BY InboxTyped DEF IInv
<1>2. SubSeq(Inbox(wire), 1, 0) = <<>>
  BY SubSeqEmpty
<1>3. Inbox(wire)' = <<>>
  BY InboxOfNone
<1>4. 0 \in 0 .. Len(Inbox(wire))
  BY <1>1
<1>5. Inbox(wire)' = SubSeq(Inbox(wire), 1, 0)
  BY <1>2, <1>3
<1> QED BY <1>4, <1>5 DEF D!Lose

\* what the broker sends arrives
LEMMA ArrivesDelivery ==
  ASSUME IInv, NEW p \in Packet, Arrives(p)
  PROVE  D!Next
<1>1. Inbox(wire)' = Append(Inbox(wire), Sent(p))
  BY InboxAppend DEF IInv, Arrives
<1>2. D!Arrive(Sent(p))
  BY <1>1 DEF Arrives, D!Arrive
<1> QED BY <1>2, SentTyped DEF D!Next

\* what is read is handled, or is none
LEMMA ReadDelivery ==
  ASSUME IInv, NEW to, Read(to), msg = NONE, msg' = Sent(Head(wire))
  PROVE  D!Begin
<1>1. wire \in Seq(Packet) /\ wire # <<>> /\ wire' = Tail(wire)
  BY DEF IInv, Read
<1>2. /\ Inbox(wire) # <<>> /\ Head(Inbox(wire)) = Sent(Head(wire))
      /\ Inbox(wire)' = Tail(Inbox(wire))
  BY <1>1, InboxTail
<1> QED BY <1>2 DEF D!Begin

LEMMA ClientDelivery ==
  ASSUME IInv, ClientTurn
  PROVE  D!Next \/ UNCHANGED D!dvars
<1>1. CASE Dial \/ Ack \/ Retry \/ Stop
  BY <1>1 DEF Dial, Ack, Retry, Stop, D!dvars
<1>2. CASE DialFail \/ ReadFail \/ ReadEOF \/ AckFail
  <2>1. Leave /\ pc # "handle"
    BY <1>2 DEF DialFail, ReadFail, ReadEOF, AckFail, Reading
  <2>2. wire' = <<>> /\ msg' = msg
    BY <2>1 DEF Leave, IInv, TypeOK
  <2> QED BY <2>2, LoseAll DEF D!Next
<1>3. CASE ReadConnack \/ ReadSuback \/ ReadSkip
  <2>1. PICK to : Read(to)
    BY <1>3 DEF ReadConnack, ReadSuback, ReadSkip
  <2>2. msg = NONE /\ msg' = NONE
    BY <1>3 DEF ReadConnack, ReadSuback, ReadSkip, IInv, TypeOK
  <2>3. Head(wire) \in Packet /\ WellFormed(Head(wire).bytes)
    BY <2>1, ReadIInv DEF Read, Fits
  <2>4. Sent(Head(wire)) = NONE
    <3>1. CASE ReadConnack \/ ReadSuback
      BY <3>1 DEF ReadConnack, ReadSuback, Read, Fits, Sent
    <3>2. CASE ReadSkip /\ Head(wire).type = "publish"
      <4>1. Decoded(Head(wire).bytes) = Head(wire).size
        BY <3>2, <2>3, MessageRead
      <4> QED BY <3>2, <2>3, <4>1 DEF ReadSkip, IsMessage, Sent
    <3>3. CASE Head(wire).type # "publish"
      BY <3>3 DEF Sent
    <3> QED BY <1>3, <3>1, <3>2, <3>3
  <2> QED BY <2>1, <2>2, <2>4, ReadDelivery DEF D!Next
<1>4. CASE ReadMessage
  <2>1. Read("handle") /\ IsMessage(Head(wire)) /\ pc = "read"
        /\ msg' = [length |-> Decoded(Head(wire).bytes), id |-> Head(wire).id]
    BY <1>4 DEF ReadMessage
  <2>2. Head(wire) \in Packet /\ Head(wire).type = "publish"
    BY <2>1, ReadIInv DEF IsMessage
  <2>3. Decoded(Head(wire).bytes) = Head(wire).size
    BY <2>2, MessageRead
  <2>4. msg' = Sent(Head(wire))
    BY <2>1, <2>2, <2>3 DEF IsMessage, Sent
  <2>5. msg = NONE
    BY <2>1 DEF IInv, TypeOK
  <2> QED BY <2>1, <2>4, <2>5, ReadDelivery DEF D!Next
<1>5. CASE HandlerReturn
  BY <1>5 DEF HandlerReturn, IInv, TypeOK, D!Next, D!End
<1> QED BY <1>1, <1>2, <1>3, <1>4, <1>5 DEF ClientTurn

LEMMA NextDelivery ==
  ASSUME IInv, [Next]_vars
  PROVE  D!Next \/ UNCHANGED D!dvars
<1>1. ASSUME \E p \in Packet : Arrives(p)
      PROVE  D!Next
  BY <1>1, ArrivesDelivery
<1>2. CASE BrokerAccept \/ BrokerGrant
  BY <1>1, <1>2 DEF BrokerAccept, BrokerGrant, Packet
<1>3. ASSUME NEW n \in Length, NEW id \in BOOLEAN, BrokerPublish(n, id)
      PROVE  D!Next
  <2>1. Publish(n, id) \in Packet
    BY DEF Packet
  <2> QED BY <1>1, <1>3, <2>1 DEF BrokerPublish
<1>4. CASE BrokerOther
  BY <1>1, <1>4 DEF BrokerOther, Packet
<1>5. CASE BrokerClose
  <2>1. PICK k \in 0 .. Len(wire) : wire' = SubSeq(wire, 1, k)
    BY <1>5 DEF BrokerClose
  <2>2. Inbox(wire)' = SubSeq(Inbox(wire), 1, k) /\ Len(Inbox(wire)) = Len(wire)
    BY <2>1, InboxPrefix, InboxTyped DEF IInv
  <2>3. D!Lose
    BY <1>5, <2>2 DEF BrokerClose, D!Lose
  <2> QED BY <2>3 DEF D!Next
<1>6. CASE ClientTurn
  BY <1>6, ClientDelivery
<1>7. CASE Cancel
  BY <1>7 DEF Cancel, D!dvars
<1>8. CASE Watch
  BY <1>8, LoseAll DEF Watch, D!Next
<1>9. CASE UNCHANGED vars
  BY <1>9 DEF vars, D!dvars
<1> QED BY <1>2, <1>3, <1>4, <1>5, <1>6, <1>7, <1>8, <1>9 DEF Next

\* The subscriber implements Delivery: whatever the broker does and whenever
\* the connection is lost, the handler gets every message before the loss, in
\* order, once and one at a time.
THEOREM SubscriberImplementsDelivery == Spec => ImplementsDelivery
<1>1. Init => D!Init
  BY InboxOfNone DEF Init, D!Init
<1>2. IInv /\ [Next]_vars => [D!Next]_D!dvars
  BY NextDelivery
<1> QED BY Inductive, <1>1, <1>2, PTL DEF Spec, ImplementsDelivery, D!Spec

=============================================================================
