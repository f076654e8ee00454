------------------------------- MODULE BundleUrl -------------------------------
(***************************************************************************)
(* The urls of bundle (bundle/bundle.cc, bundle/sixty.h): what an Info is  *)
(* built into and what comes back out of a url, with numbers in decimal    *)
(* (BuildSimple, ExtractSimple) or in base sixty with a hash               *)
(* (BuildWithEncode, ExtractWithEncode).                                   *)
(*                                                                         *)
(* A string is a sequence of numbers: digits from 0 to Sixty - 1, or to    *)
(* Ten - 1, the four separators, and any other number for a character      *)
(* between '0' and 'z' that is neither.                                    *)
(***************************************************************************)
EXTENDS Integers, Sequences, FiniteSets

CONSTANTS
  PrefixSet, PostfixSet, \* strings that clients use
  Numbers,               \* ids, offsets and sizes
  Sixty, Ten,            \* the bases, 60 and 10 in the code
  HashValues,            \* values of a hash are 0 .. HashValues - 1, 2^32 in the code
  MurmurHash2(_)         \* the hash of a string: nothing is known of it but its range

VARIABLES info, coded, url, extracted

vars == <<info, coded, url, extracted>>

Slash == 1000
Dot == 1001
Underscore == 1002
Comma == 1003
Name == 1004       \* info.name

Info == [prefix : PrefixSet, id : Numbers \cup {-1}, offset : Numbers, size : Numbers,
         postfix : PostfixSet]
NotYet == <<>>
Failure == [failed |-> TRUE]
-----------------------------------------------------------------------------
(***************************************************************************)
(* sixty.h, and the decimal numbers of ostream and atol                    *)
(***************************************************************************)
\* The digits of n, the last one found first; nothing for a negative number.
Digits(n, base) ==
  LET result_str[number \in 0 .. n] ==
        IF number < base THEN <<number>>
        ELSE Append(result_str[number \div base], number % base)
  IN IF n < 0 THEN <<>> ELSE result_str[n]
ToSixty(n) == Digits(n, Sixty)
Decimal(n) == Digits(n, Ten)

\* CharTable has -1 for what is not a digit, and that is added up like a digit;
\* a sum that becomes negative is an error, as are an empty and a long string.
CharTable(c, base) == IF c < base THEN c ELSE -1
Sum(s, base) ==
  LET ten[j \in 0 .. Len(s)] ==
        IF j = 0 THEN 0
        ELSE IF ten[j - 1] < 0 THEN -1 ELSE ten[j - 1] * base + CharTable(s[j], base)
  IN ten[Len(s)]
FromSixty(s) == IF s = <<>> \/ Len(s) > 11 \/ Sum(s, Sixty) < 0 THEN -1 ELSE Sum(s, Sixty)
-----------------------------------------------------------------------------
(***************************************************************************)
(* std::string                                                             *)
(***************************************************************************)
\* rfind(): 0 stands for npos.
Rfind(s, c) ==
  IF \E j \in 1 .. Len(s) : s[j] = c
  THEN CHOOSE j \in 1 .. Len(s) : s[j] = c /\ \A k \in j + 1 .. Len(s) : s[k] # c
  ELSE 0

\* boost::split at ",/._".
Separator(c) == c \in {Comma, Slash, Dot, Underscore}
Cuts(s) == {0, Len(s) + 1} \cup {j \in 1 .. Len(s) : Separator(s[j])}
Cut(s, k) == CHOOSE j \in Cuts(s) : Cardinality({i \in Cuts(s) : i < j}) = k
Split(s) ==
  [k \in 1 .. Cardinality(Cuts(s)) - 1 |-> SubSeq(s, Cut(s, k - 1) + 1, Cut(s, k) - 1)]

\* Mutant: the dot is taken along.
MiddleWithDot(u) ==
  LET dot == Rfind(u, Dot) slash == Rfind(u, Slash)
  IN SubSeq(u, slash + 1, IF dot > slash THEN dot ELSE Len(u))

\* The url between the last slash and the last dot; up to its end when the
\* slash comes after the dot, as the length wraps then.
Middle(u) ==
  LET dot == Rfind(u, Dot) slash == Rfind(u, Slash)
  IN SubSeq(u, slash + 1, IF dot > slash THEN dot - 1 ELSE Len(u))
PrefixOf(u) == IF Rfind(u, Slash) = 0 THEN u ELSE SubSeq(u, 1, Rfind(u, Slash) - 1)
PostfixOf(u) == SubSeq(u, Rfind(u, Dot), Len(u))
-----------------------------------------------------------------------------
(***************************************************************************)
(* Build and Extract                                                       *)
(***************************************************************************)
\* BuildSimple leaves the slash out for an empty prefix, and writes the name
\* of an Info that has no id.
PathOf(prefix) == IF prefix = <<>> THEN <<>> ELSE Append(prefix, Slash)

BuildSimple(i) ==
  PathOf(i.prefix) \o (IF i.id = -1 THEN <<Name>> ELSE Decimal(i.id)) \o <<Comma>>
    \o Decimal(i.offset) \o <<Comma>> \o Decimal(i.size) \o i.postfix

\* atol() reads the digits that a string begins with; without any it is 0.
Leading(s) ==
  CHOOSE n \in 0 .. Len(s) : (\A j \in 1 .. n : s[j] < Ten) /\ (n < Len(s) => s[n + 1] >= Ten)
Atol(s) == Sum(SubSeq(s, 1, Leading(s)), Ten)

ExtractSimple(u) ==
  LET vs == Split(Middle(u)) IN
  IF Rfind(u, Dot) = 0 \/ Len(vs) < 3 THEN Failure
  ELSE [prefix |-> PrefixOf(u), id |-> Atol(vs[1]), offset |-> Atol(vs[2]),
        size |-> Atol(vs[3]), postfix |-> PostfixOf(u)]

\* The hash is that of the Info written out in decimal with underscores.
Written(i) ==
  i.prefix \o <<Slash, i.id, Underscore, i.offset, Underscore, i.size, Underscore>> \o i.postfix
Hash(i) == MurmurHash2(Written(i))

BuildWithEncode(i) ==
  i.prefix \o <<Slash>> \o ToSixty(i.id) \o <<Underscore>> \o ToSixty(i.offset) \o <<Underscore>>
    \o ToSixty(i.size) \o <<Underscore>> \o ToSixty(Hash(i)) \o i.postfix

\* A hash of all ones, the error of FromSixty, is refused.
Genuine(i, hash) == hash % HashValues # HashValues - 1 /\ hash % HashValues = Hash(i)

ExtractWithEncode(u) ==
  LET vs == Split(Middle(u)) IN
  IF Rfind(u, Dot) = 0 \/ Len(vs) # 4 THEN Failure
  ELSE LET i == [prefix |-> PrefixOf(u), id |-> FromSixty(vs[1]), offset |-> FromSixty(vs[2]),
                 size |-> FromSixty(vs[3]), postfix |-> PostfixOf(u)]
       IN IF Genuine(i, FromSixty(vs[4])) THEN i ELSE Failure
-----------------------------------------------------------------------------
Init == info \in Info /\ coded \in BOOLEAN /\ url = NotYet /\ extracted = Failure

\* EnsureUrl, and Extract in Reader::Read.
Build ==
  /\ url = NotYet /\ url' = IF coded THEN BuildWithEncode(info) ELSE BuildSimple(info)
  /\ UNCHANGED <<info, coded, extracted>>
Extract ==
  /\ url # NotYet /\ extracted = Failure
  /\ extracted' = [i |-> IF coded THEN ExtractWithEncode(url) ELSE ExtractSimple(url)]
  /\ UNCHANGED <<info, coded, url>>

Next == Build \/ Extract
Spec == Init /\ [][Next]_vars
-----------------------------------------------------------------------------
\* A postfix is a dot and a word, without a dot or a slash in it.
ProperPostfix(p) ==
  /\ p # <<>> /\ p[1] = Dot
  /\ \A j \in 2 .. Len(p) : p[j] \notin {Dot, Slash}

(***************************************************************************)
(* Build, Extract: the url of a written file leads back to its Info if its *)
(* postfix is a dot and a word, and only then: any other url is refused or *)
(* means some other file.  A url without a hash needs a prefix and an id;  *)
(* the one in 2^32 whose hash is all ones is refused.                      *)
(***************************************************************************)
RoundTrip ==
  extracted # Failure =>
    (extracted.i = info) = /\ ProperPostfix(info.postfix)
                           /\ coded => Hash(info) # HashValues - 1
                           /\ ~coded => info.prefix # <<>> /\ info.id # -1
=============================================================================
