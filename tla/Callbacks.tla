------------------------------ MODULE Callbacks ------------------------------
(***************************************************************************)
(* What is in a button and which handler its tap reaches: CallbackData     *)
(* (callback_data.go), Pagination (pagination.go).  Data is a sequence of  *)
(* characters, of which matter the separator, digits, and whether prefixes *)
(* are equal; a schema is a prefix and the types of its fields, where one  *)
(* type of integers, a narrow one, stands for all.                         *)
(***************************************************************************)
EXTENDS Integers, SequencesExt, FiniteSetsExt

CONSTANTS
  MaxCallbackDataLength,
  MaxInt                  \* of an integer field

Digits == <<"0", "1", "2", "3", "4", "5", "6", "7", "8", "9">>
Sep    == ":"
Error  == <<"error">>

-----------------------------------------------------------------------------
(* strconv and strings *)

FormatUint(n) ==
  LET Format[k \in 0..n] ==
        IF k < 10 THEN <<Digits[k + 1]>> ELSE Append(Format[k \div 10], Digits[(k % 10) + 1])
  IN Format[n]

FormatInt(n) == IF n < 0 THEN <<"-">> \o FormatUint(-n) ELSE FormatUint(n)

IsNumeral(s) == s # <<>> /\ \A i \in 1..Len(s) : s[i] \in Range(Digits)

ValueOf(s) ==
  LET Value[i \in 0..Len(s)] ==
        IF i = 0 THEN 0 ELSE 10 * Value[i - 1] + (CHOOSE d \in 0..9 : Digits[d + 1] = s[i])
  IN Value[Len(s)]

Unsigned(s) == IF s # <<>> /\ Head(s) \in {"-", "+"} THEN Tail(s) ELSE s

(* A sign and digits, leading zeros or not *)
ParsesInt(s) == IsNumeral(Unsigned(s))
ParseInt(s)  == IF Head(s) = "-" THEN -ValueOf(Unsigned(s)) ELSE ValueOf(Unsigned(s))

(* reflect's SetInt keeps the low bits. *)
SetInt(n) == ((n + MaxInt + 1) % (2 * MaxInt + 2)) - MaxInt - 1

Join(parts) ==
  LET Joined[i \in 1..Len(parts)] ==
        IF i = 1 THEN parts[1] ELSE Joined[i - 1] \o <<Sep>> \o parts[i]
  IN Joined[Len(parts)]

Split(s) ==
  LET Parts[i \in 0..Len(s)] ==
        IF i = 0 THEN << <<>> >>
        ELSE LET parts == Parts[i - 1]
             IN IF s[i] = Sep THEN Append(parts, <<>>)
                ELSE [parts EXCEPT ![Len(parts)] = Append(@, s[i])]
  IN Parts[Len(s)]

HasPrefix(s, prefix) == Len(prefix) <= Len(s) /\ SubSeq(s, 1, Len(prefix)) = prefix

-----------------------------------------------------------------------------
(* CallbackData; WithHMAC is left out. *)

Part(type, value) ==
  CASE type = "string" -> value
    [] type = "bool"   -> IF value THEN <<"true">> ELSE <<"false">>
    [] type = "int"    -> FormatInt(value)

(* Mutant of Accepts: separators are not looked for. *)
AcceptsAny(cd, v) == Len(Join(<<cd.prefix>> \o [i \in DOMAIN cd.fields |-> Part(cd.fields[i], v[i])])) <= MaxCallbackDataLength

(* What Pack does not answer with an error *)
Accepts(cd, v) ==
  /\ \A i \in DOMAIN cd.fields : cd.fields[i] = "string" => Sep \notin Range(v[i])
  /\ Len(Join(<<cd.prefix>> \o [i \in DOMAIN cd.fields |-> Part(cd.fields[i], v[i])])) <= MaxCallbackDataLength

Pack(cd, v) == Join(<<cd.prefix>> \o [i \in DOMAIN cd.fields |-> Part(cd.fields[i], v[i])])

FieldOf(type, part) ==
  CASE type = "string" -> part
    [] type = "bool"   -> part = <<"true">>
    [] type = "int"    -> SetInt(ParseInt(part))

Unpacks(cd, data) ==
  LET parts == Split(data)
  IN /\ parts[1] = cd.prefix
     /\ Len(parts) - 1 = Len(cd.fields)
     /\ \A i \in DOMAIN cd.fields :
          /\ cd.fields[i] = "bool" => parts[i + 1] \in {<<"true">>, <<"false">>}
          /\ cd.fields[i] = "int"  => ParsesInt(parts[i + 1])

Unpack(cd, data) ==
  LET parts == Split(data) IN [i \in DOMAIN cd.fields |-> FieldOf(cd.fields[i], parts[i + 1])]

(* Mutant of Filter: the separator after the prefix is forgotten. *)
FilterPrefix(cd, data) == HasPrefix(data, cd.prefix)

Filter(cd, data) == data = cd.prefix \/ HasPrefix(data, Append(cd.prefix, Sep))

-----------------------------------------------------------------------------
(* Pagination *)

data(prefix, page) == prefix \o <<Sep, "p", "g", Sep>> \o FormatInt(page)

(* The row for a page: its buttons' data, the indicator in the middle. *)
Row(prefix, page, total) ==
  LET p == IF page < 1 THEN 1 ELSE IF page > total THEN total ELSE page
      Button(shown, target) == IF shown THEN <<data(prefix, target)>> ELSE <<>>
  IN IF total < 2 THEN <<>>
     ELSE Button(p > 2, 1) \o Button(p > 1, p - 1)
            \o <<prefix \o <<Sep, "p", "g", "c", "u", "r">>>>
            \o Button(p < total, p + 1) \o Button(p < total - 1, total)

(* Page: the target of a tap, 0 if it is none of this pagination's. *)
Page(prefix, tapped) ==
  LET nav  == prefix \o <<Sep, "p", "g", Sep>>
      rest == SubSeq(tapped, Len(nav) + 1, Len(tapped))
  IN IF HasPrefix(tapped, nav) /\ ParsesInt(rest) /\ ParseInt(rest) >= 1 THEN ParseInt(rest) ELSE 0

-----------------------------------------------------------------------------
(* What they are for *)

(* What a schema packs it unpacks to the same values, and only filters of its *)
(* own prefix take the tap, although a prefix may begin with another.         *)
PacksRight(cd, other, v) ==
  LET packed == Pack(cd, v)
  IN Accepts(cd, v) =>
       /\ Unpacks(cd, packed) /\ Unpack(cd, packed) = v
       /\ Filter(cd, packed)
       /\ other.prefix # cd.prefix =>
            ~Filter(other, packed) /\ ~Unpacks(other, packed) /\ Page(other.prefix, packed) = 0

(* A row leads to the first, the previous, the next and the last page as far  *)
(* as they are others than this one, to each by one button, and its taps are  *)
(* nobody else's.  Schemas take no prefix with a separator, and their filters *)
(* take a pagination's taps if its prefix is theirs and more after one.       *)
PagesRight(prefix, other, page, total) ==
  LET row  == Row(prefix, page, total)
      here == Max({1, Min({page, total})})
      Target(i) == Page(prefix, row[i])
  IN IF total < 2 THEN row = <<>>
     ELSE /\ {Target(i) : i \in DOMAIN row}
               = {0} \cup (({1, here - 1, here + 1, total} \cap 1..total) \ {here})
          /\ \A i, j \in DOMAIN row : Target(i) = Target(j) => i = j
          /\ other # prefix =>
               \A i \in DOMAIN row :
                 /\ Page(other, row[i]) = 0
                 /\ Sep \in Range(prefix \o other) \/ ~Filter([prefix |-> other], row[i])
=============================================================================
