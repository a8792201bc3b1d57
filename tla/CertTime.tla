------------------------------ MODULE CertTime ------------------------------
(***************************************************************************)
(* How the TLS resolver reads the validity of a certificate                *)
(* (src/src/tls_reload.rs, from parse_certificate_validity on): the DER    *)
(* around it and the two time formats.  Bytes are numbers; a Result is a   *)
(* set, {x} for Ok(x) and {} for an error.  A time stamp is the pair of    *)
(* its day and the second in that day: the code's i64 is 86400 times the   *)
(* one plus the other.                                                     *)
(***************************************************************************)
EXTENDS Calendar, Sequences, FiniteSets

CONSTANT Wide   \* size_of::<usize>(); a length names at most 127 bytes

ASSUME WideAssumption == Wide \in 1..127

(* 256 to the power of k: the numbers that k bytes can hold. *)
Capacity[k \in 0..Wide] == IF k = 0 THEN 1 ELSE 256 * Capacity[k - 1]

(* The length in the bytes b: shifts drop what usize cannot hold. *)
BigEndian(b) ==
  LET read[i \in 0..Len(b)] ==
        IF i = 0 THEN 0 ELSE ((read[i - 1] * 256) % Capacity[Wide]) + b[i]
  IN read[Len(b)]

(* A tag, a definite length in its short or long form, and the value. *)
read_der_tlv(input) ==
  LET first == input[2]
      more == first - 128
      head == IF first < 128 THEN 2 ELSE 2 + more
      length == IF first < 128 THEN first ELSE BigEndian(SubSeq(input, 3, 2 + more))
  IN IF \/ Len(input) < 2
        \/ first >= 128 /\ (more = 0 \/ more > Wide \/ more > Len(input) - 2)
        \/ length > Len(input) - head
     THEN {}
     ELSE {[tag |-> input[1],
            value |-> SubSeq(input, head + 1, head + length),
            rest |-> SubSeq(input, head + length + 1, Len(input))]}

read_der_value(input, tag) == {x \in read_der_tlv(input) : x.tag = tag}

-----------------------------------------------------------------------------
IsDigit(byte) == byte \in 48..57

parse_digits(value) ==
  IF value = <<>> \/ \E i \in DOMAIN value : ~IsDigit(value[i]) THEN {}
  ELSE LET read[i \in 0..Len(value)] ==
             IF i = 0 THEN 0 ELSE read[i - 1] * 10 + value[i] - 48
       IN {read[Len(value)]}

(* The digits at places `from` and up to `to` of the fields. *)
Field(fields, from, to) == parse_digits(SubSeq(fields, from, to))

FractionOk(fields) ==
  Len(fields) > 10 =>
    /\ fields[11] = 46
    /\ Len(fields) > 11
    /\ \A i \in 12..Len(fields) : IsDigit(fields[i])

(* UTCTime has two digits of a year, GeneralizedTime four; the years of a  *)
(* UTCTime are those from 1950 to 2049.                                    *)
parse_certificate_time(tag, value) ==
  LET text == SubSeq(value, 1, Len(value) - 1)
      digits == IF tag = \h17 THEN 2 ELSE 4
      fields == SubSeq(text, digits + 1, Len(text))
  IN IF \/ value = <<>> \/ value[Len(value)] /= 90
        \/ tag \notin {\h17, \h18}
        \/ tag = \h17 /\ Len(text) /= 12
        \/ tag = \h18 /\ Len(text) < 14
        \/ ~FractionOk(fields)
     THEN {}
     ELSE {<<days_from_civil(t[1], t[2], t[3]), t[4] * 3600 + t[5] * 60 + t[6]>> :
             t \in {u \in ({IF tag = \h18 THEN y ELSE IF y >= 50 THEN 1900 + y ELSE 2000 + y :
                              y \in Field(text, 1, digits)}
                           \X Field(fields, 1, 2) \X Field(fields, 3, 4)
                           \X Field(fields, 5, 6) \X Field(fields, 7, 8)
                           \X Field(fields, 9, 10)) :
                      /\ u[2] \in 1..12
                      /\ u[3] \in 1..days_in_month(u[1], u[2])
                      /\ u[4] <= 23 /\ u[5] <= 59 /\ u[6] <= 59}}

NotLater(s, t) == s[1] < t[1] \/ (s[1] = t[1] /\ s[2] <= t[2])

(* What is left of each input after a value with this tag. *)
After(inputs, tag) == UNION {{x.rest : x \in read_der_value(i, tag)} : i \in inputs}

(* The validity in a TBSCertificate, after an optional version. *)
ValidityOf(tbs) ==
  LET versioned == tbs /= <<>> /\ tbs[1] = \ha0
      fields == IF versioned THEN After({tbs}, \ha0) ELSE {tbs}
  IN UNION {{x.value : x \in read_der_value(i, \h30)} :
              i \in After(After(After(fields, \h02), \h30), \h30)}

(* The two times in a validity, in order. *)
TimesOf(validity) ==
  {times \in UNION {UNION {parse_certificate_time(b.tag, b.value)
                              \X parse_certificate_time(a.tag, a.value) :
                            a \in {x \in read_der_tlv(b.rest) : x.rest = <<>>}} :
                     b \in read_der_tlv(validity)} :
     NotLater(times[1], times[2])}

parse_certificate_validity(der) ==
  LET certificate == {x.value : x \in {y \in read_der_value(der, \h30) : y.rest = <<>>}}
      tbs == {x.value : x \in
                {y \in UNION {read_der_value(c, \h30) : c \in certificate} :
                   After(After({y.rest}, \h30), \h03) = {<<>>}}}
  IN UNION {TimesOf(v) : v \in UNION {ValidityOf(t) : t \in tbs}}

-----------------------------------------------------------------------------
(* The reference: the ways to write a value with its tag and length. *)
Byte(n, i) == (n \div Capacity[i]) % 256
LongLength(n, k) == <<128 + k>> \o [i \in 1..k |-> Byte(n, k - i)]
Spellings(tag, value) ==
  LET n == Len(value) IN
  {<<tag>> \o l \o value : l \in
     (IF n < 128 THEN {<<n>>} ELSE {})
       \cup {LongLength(n, k) : k \in {j \in 1..Wide : n < Capacity[j]}}}

Strings(alphabet, n) == UNION {[1..k -> alphabet] : k \in 0..n}

(* read_der_tlv reads a value however its length is written, and nothing   *)
(* that is not a value so written and what follows it.                     *)
DerReadExactly ==
  /\ \A n \in {0, 1, 127, 128, 255, 256, 300} :
       LET value == [i \in 1..n |-> 7] IN
       \A s \in Spellings(48, value) :
         read_der_tlv(s \o <<9>>) = {[tag |-> 48, value |-> value, rest |-> <<9>>]}
  /\ \A s \in Strings({0, 1, 2, 128, 129, 130, 131}, 5) :
       LET parts == {i \in 0..Len(s) : \E j \in 0..i :
             s # <<>> /\ SubSeq(s, 1, i) \in Spellings(s[1], SubSeq(s, j + 1, i))}
       IN /\ read_der_tlv(s) = {} <=> parts = {}
          /\ \A x \in read_der_tlv(s) : parts = {Len(s) - Len(x.rest)}

Digit(n) == 48 + (n % 10)
Two(n) == <<Digit(n \div 10), Digit(n)>>
Four(n) == <<Digit(n \div 1000), Digit(n \div 100), Digit(n \div 10), Digit(n)>>
Clock(m, d, h, i, s) == Two(m) \o Two(d) \o Two(h) \o Two(i) \o Two(s)
IsTime(y, m, d, h, i, s) ==
  /\ m \in 1..12 /\ d >= 1 /\ d <= days_in_month(y, m)
  /\ h < 24 /\ i < 60 /\ s < 60
Zulu == <<90>>
Noon == Clock(2, 28, 12, 0, 1) \o Zulu
Without(s, i) == SubSeq(s, 1, i - 1) \o SubSeq(s, i + 1, Len(s))
Inserted(s, i, x) == SubSeq(s, 1, i - 1) \o <<x>> \o SubSeq(s, i, Len(s))

(* A time is read exactly when it exists, as the same instant in both      *)
(* formats; a text that is not a time in either format is refused.         *)
TimesRead ==
  /\ \A y \in {1949, 1950, 2000, 2023, 2049, 2050}, m \in {0, 1, 2, 4, 12, 13},
        d \in {0, 1, 28, 29, 30, 31, 32}, t \in {<<0, 0, 0>>, <<23, 59, 59>>,
        <<24, 0, 0>>, <<0, 60, 0>>, <<0, 0, 60>>} :
       LET rest == Clock(m, d, t[1], t[2], t[3])
           expected == IF IsTime(y, m, d, t[1], t[2], t[3])
                       THEN {<<days_from_civil(y, m, d), t[1] * 3600 + t[2] * 60 + t[3]>>}
                       ELSE {}
       IN /\ parse_certificate_time(\h18, Four(y) \o rest \o Zulu) = expected
          /\ parse_certificate_time(\h18, Four(y) \o rest \o <<46, 53>> \o Zulu) = expected
          /\ y \in 1950..2049 =>
               parse_certificate_time(\h17, Two(y % 100) \o rest \o Zulu) = expected
  /\ \A x \in {<<\h17, Two(26) \o Noon>>, <<\h18, Four(2026) \o Noon>>} :
       LET text == x[2] IN
       /\ parse_certificate_time(x[1], text) /= {}
       /\ \A i \in DOMAIN text : /\ parse_certificate_time(x[1], Without(text, i)) = {}
                                 /\ parse_certificate_time(x[1], [text EXCEPT ![i] = 47]) = {}
       /\ \A i \in 1..(Len(text) + 1) :
            parse_certificate_time(x[1], Inserted(text, i, 46)) = {}
       /\ parse_certificate_time(\h16, text) = {}

(* A small certificate with these two times, and its damaged copies. *)
Tlv(tag, value) == <<tag, Len(value)>> \o value
TimeTlv(y) == Tlv(\h18, Four(y) \o Noon)
Tbs(version, s, t, tail) ==
  version \o Tlv(2, <<1>>) \o Tlv(\h30, <<>>) \o Tlv(\h30, <<>>)
    \o Tlv(\h30, TimeTlv(s) \o TimeTlv(t) \o tail) \o <<5, 0>>
Certificate(version, s, t, tail) ==
  Tlv(\h30, Tlv(\h30, Tbs(version, s, t, tail)) \o Tlv(\h30, <<>>) \o Tlv(3, <<0>>))

(* The validity of a certificate is found whether or not it states its     *)
(* version, is refused when it ends before it begins, and a certificate    *)
(* cut short or with bytes after any of its parts has none.                *)
ValidityFound ==
  \A version \in {<<>>, Tlv(\ha0, <<2, 1, 2>>)}, s, t \in {2025, 2026} :
    LET der == Certificate(version, s, t, <<>>)
        time(y) == <<days_from_civil(y, 2, 28), 43201>>
    IN /\ parse_certificate_validity(der) = IF s <= t THEN {<<time(s), time(t)>>} ELSE {}
       /\ \A i \in DOMAIN der : parse_certificate_validity(SubSeq(der, 1, i - 1)) = {}
       /\ parse_certificate_validity(der \o <<0>>) = {}
       /\ parse_certificate_validity(Certificate(version, s, t, <<5, 0>>)) = {}
=============================================================================
