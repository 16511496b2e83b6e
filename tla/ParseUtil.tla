------------------------------ MODULE ParseUtil ------------------------------
(***************************************************************************)
(* The primitive parsers of src/src/share/parse-util.c over texts given    *)
(* character by character (a text is a tuple of one-character strings).   *)
(* strtol(c, &p, 0) is modelled as glibc does it: leading white space, a   *)
(* sign, then base 16 after 0x, base 8 after a leading 0, base 10          *)
(* otherwise, as many digits as the base allows, and p == c when no digit  *)
(* was read.  The texts have at most a few characters, so strtol's long    *)
(* never overflows and its ERANGE branch is not reached.                   *)
(*                                                                         *)
(* A uint32_t or uint16_t result is represented by the int with the same   *)
(* bits, as in NetworkRecord.                                              *)
(***************************************************************************)
EXTENDS Integers, Sequences

CONSTANTS
  NULL,          \* a NULL const char *
  NumberTexts,   \* texts handed to the integer parsers
  WordTexts      \* texts handed to parse_boolean

VARIABLE text    \* the argument of the call being checked

EINVAL == 22
ERANGE == 34
INT_MAX == 2147483647
INT_MIN == -2147483647 - 1

Spaces == {" ", "\t", "\n"}
DigitChars == <<"0", "1", "2", "3", "4", "5", "6", "7", "8", "9",
                "a", "b", "c", "d", "e", "f">>
UpperHex == <<"A", "B", "C", "D", "E", "F">>

(* The value of c as a digit, or -1: what strtol accepts in any base. *)
DigitValue(c) ==
  IF \E j \in DOMAIN DigitChars : DigitChars[j] = c
  THEN (CHOOSE j \in DOMAIN DigitChars : DigitChars[j] = c) - 1
  ELSE IF \E j \in DOMAIN UpperHex : UpperHex[j] = c
  THEN (CHOOSE j \in DOMAIN UpperHex : UpperHex[j] = c) + 9
  ELSE -1

IsDigitIn(c, base) == DigitValue(c) >= 0 /\ DigitValue(c) < base

(* The character at i, the terminating NUL past the end. *)
NUL == "<NUL>"
Ch(s, i) == IF i <= Len(s) THEN s[i] ELSE NUL

RECURSIVE SkipSpace(_, _)
SkipSpace(s, i) == IF Ch(s, i) \in Spaces THEN SkipSpace(s, i + 1) ELSE i

RECURSIVE Accumulate(_, _, _, _)
Accumulate(s, i, base, acc) ==
  IF IsDigitIn(Ch(s, i), base)
  THEN Accumulate(s, i + 1, base, acc * base + DigitValue(Ch(s, i)))
  ELSE [val |-> acc, end |-> i]

(* strtol(c, &p, 0): the long and the index p points at (1 when p == c). *)
strtol(s) ==
  LET i0 == SkipSpace(s, 1)
      i1 == IF Ch(s, i0) \in {"+", "-"} THEN i0 + 1 ELSE i0
      hex == Ch(s, i1) = "0" /\ Ch(s, i1 + 1) \in {"x", "X"} /\ IsDigitIn(Ch(s, i1 + 2), 16)
      base == IF hex THEN 16 ELSE IF Ch(s, i1) = "0" THEN 8 ELSE 10
      start == IF hex THEN i1 + 2 ELSE i1
      d == Accumulate(s, start, base, 0)
  IN IF d.end = start THEN [val |-> 0, end |-> 1]
     ELSE [val |-> IF Ch(s, i0) = "-" THEN -d.val ELSE d.val, end |-> d.end]

(* if (!p || p == c || *p) return -1; *)
Unparsed(s) == strtol(s).end = 1 \/ strtol(s).end <= Len(s)

(* parse_integer and parse_uint32 have the same body: any long in          *)
(* [INT_MIN, INT_MAX] is stored, a negative one included.                  *)
parse_integer(s) ==
  LET r == strtol(s).val
  IN CASE Unparsed(s)                 -> [r |-> -1, val |-> NULL]
       [] r < INT_MIN \/ r > INT_MAX  -> [r |-> -ERANGE, val |-> NULL]
       [] OTHER                       -> [r |-> 0, val |-> r]

parse_uint32(s) == parse_integer(s)

(* Fault variant: 0xffff itself taken as out of range. *)
parse_uint16_at_limit(s) ==
  LET r == strtol(s).val
  IN CASE Unparsed(s)  -> [r |-> -1, val |-> NULL]
       [] r >= 65535   -> [r |-> -ERANGE, val |-> NULL]
       [] OTHER        -> [r |-> 0, val |-> r % 65536]

(* parse_uint16 rejects only r > 0xffff: a negative long is stored modulo  *)
(* 2^16 by the conversion to uint16_t.                                     *)
parse_uint16(s) ==
  LET r == strtol(s).val
  IN CASE Unparsed(s)  -> [r |-> -1, val |-> NULL]
       [] r > 65535    -> [r |-> -ERANGE, val |-> NULL]
       [] OTHER        -> [r |-> 0, val |-> r % 65536]

MaxText == <<"m", "a", "x">>
is_uint32_or_max(s) == s = MaxText \/ parse_uint32(s).r >= 0

(* v > 4096 compares unsigned: the int of the same bits is above 4096 or  *)
(* negative.                                                               *)
UnsignedAbove(v, k) == v < 0 \/ v > k


parse_link_queue(s) ==
  IF parse_uint32(s).r < 0 \/ UnsignedAbove(parse_uint32(s).val, 4096)
  THEN [ok |-> FALSE, val |-> NULL]
  ELSE [ok |-> TRUE, val |-> parse_uint32(s).val]

(* string_equal_fold: strcasecmp, ASCII letters compared without case. *)
Lowers == <<"a", "b", "c", "d", "e", "f", "g", "h", "i", "j", "k", "l", "m",
            "n", "o", "p", "q", "r", "s", "t", "u", "v", "w", "x", "y", "z">>
Uppers == <<"A", "B", "C", "D", "E", "F", "G", "H", "I", "J", "K", "L", "M",
            "N", "O", "P", "Q", "R", "S", "T", "U", "V", "W", "X", "Y", "Z">>
Fold(c) == IF \E j \in 1..26 : Uppers[j] = c THEN Lowers[CHOOSE j \in 1..26 : Uppers[j] = c] ELSE c
string_equal_fold(a, b) ==
  Len(a) = Len(b) /\ \A i \in DOMAIN a : Fold(a[i]) = Fold(b[i])

TrueWords == {<<"y", "e", "s">>, <<"y">>, <<"t", "r", "u", "e">>, <<"t">>, <<"o", "n">>}
FalseWords == {<<"n", "o">>, <<"n">>, <<"f", "a", "l", "s", "e">>, <<"f">>, <<"o", "f", "f">>}

(* Fault variant: the words compared with string_equal. *)
parse_boolean_case_sensitive(v) ==
  CASE v = NULL                       -> -EINVAL
    [] v = <<"1">> \/ v \in TrueWords   -> 1
    [] v = <<"0">> \/ v \in FalseWords  -> 0
    [] OTHER                            -> -EINVAL

(* parse_boolean: if (!v) return -EINVAL, then the words of each kind. *)
parse_boolean(v) ==
  CASE v = NULL -> -EINVAL
    [] v = <<"1">> \/ \E w \in TrueWords : string_equal_fold(v, w)  -> 1
    [] v = <<"0">> \/ \E w \in FalseWords : string_equal_fold(v, w) -> 0
    [] OTHER -> -EINVAL

Init == text \in NumberTexts \cup WordTexts \cup {NULL}

(* One call of a parser on another argument: the parsers are pure, so a   *)
(* state is the argument and the properties speak of every parser's       *)
(* result on it.                                                           *)
Call == \E s \in NumberTexts \cup WordTexts \cup {NULL} : text' = s

Spec == Init /\ [][Call]_text

-----------------------------------------------------------------------------
(***************************************************************************)
(* The reference definitions of spec 4.1.                                  *)
(***************************************************************************)

LowerText(v) == [i \in DOMAIN v |-> Fold(v[i])]
SpecTrueTokens == {<<"1">>, <<"y">>, <<"y", "e", "s">>, <<"t">>, <<"t", "r", "u", "e">>, <<"o", "n">>}
SpecFalseTokens == {<<"0">>, <<"n">>, <<"n", "o">>, <<"f">>, <<"f", "a", "l", "s", "e">>, <<"o", "f", "f">>}

(* A valid base-10 or 0x-prefixed integer, and its value as the sum of    *)
(* its digits times the powers of the base.                                *)
IsDecimal(s) == Len(s) >= 1 /\ \A i \in DOMAIN s : IsDigitIn(s[i], 10)
IsHex(s) == Len(s) >= 3 /\ s[1] = "0" /\ s[2] \in {"x", "X"}
            /\ \A i \in 3..Len(s) : IsDigitIn(s[i], 16)
RECURSIVE DigitSum(_, _, _)
DigitSum(s, i, base) ==
  IF i > Len(s) THEN 0 ELSE DigitValue(s[i]) * base^(Len(s) - i) + DigitSum(s, i + 1, base)
SpecUnsignedValue(s) == IF IsHex(s) THEN DigitSum(s, 3, 16) ELSE DigitSum(s, 1, 10)

(* Spec 4.1 and 8: parse_boolean returns 1 for the true-tokens and 0 for  *)
(* the false-tokens, compared without case, and -EINVAL (InvalidBoolean)  *)
(* for anything else, NULL included.  The code spells "1" and "0" with    *)
(* string_equal and every word with string_equal_fold.                     *)
ParseBooleanMatchesSpec ==
  text \in WordTexts \cup {NULL} =>
    parse_boolean(text) = CASE text = NULL -> -EINVAL
                            [] LowerText(text) \in SpecTrueTokens -> 1
                            [] LowerText(text) \in SpecFalseTokens -> 0
                            [] OTHER -> -EINVAL

(* The outcome of an integer parse as spec 4.1 classes it: the value, or *)
(* Overflow (-ERANGE), or NotANumber (any other error).                    *)
Value(v) == [class |-> "Value", val |-> v]
Failure(c) == [class |-> c, val |-> 0]
Outcome(res) == CASE res.r = 0       -> Value(res.val)
                  [] res.r = -ERANGE -> Failure("Overflow")
                  [] OTHER           -> Failure("NotANumber")

SpecUint16(s) ==
  CASE ~(IsDecimal(s) \/ IsHex(s))   -> Failure("NotANumber")
    [] SpecUnsignedValue(s) > 65535  -> Failure("Overflow")
    [] OTHER                         -> Value(SpecUnsignedValue(s))

(* The texts strtol(c, &p, 0) reads by another grammar than spec 4.1's:  *)
(* leading white space, a sign, or a decimal with a leading 0, which base *)
(* 0 reads as octal.                                                       *)
Base0Extension(s) ==
  Len(s) >= 1 /\ (s[1] \in Spaces \cup {"+", "-"} \/ (Len(s) >= 2 /\ s[1] = "0" /\ IsDigitIn(s[2], 10)))

(* Spec 4.1: parse_uint16 yields the base-10 or 0x value of a text, fails *)
(* with Overflow above 0xffff and with NotANumber on anything else.  The  *)
(* code (strtol base 0, then only r > 0xffff rejected) agrees on every     *)
(* text except those of Base0Extension, where it disagrees with the spec:  *)
(* 010 gives 8, 08 and 09 are rejected, " 1" gives 1, and -1 is accepted   *)
(* and stored as 65535.                                                    *)
ParseUint16AgreesWithSpecOutsideBase0 ==
  text \in NumberTexts /\ Outcome(parse_uint16(text)) # SpecUint16(text) => Base0Extension(text)
=============================================================================
