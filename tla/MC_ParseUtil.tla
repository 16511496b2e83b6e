---------------------------- MODULE MC_ParseUtil ----------------------------
(***************************************************************************)
(* Arguments for the primitive parsers: every text of at most three        *)
(* characters over digits, x, X, f, the minus sign and a space (signs,     *)
(* leading white space, octal and hex prefixes, trailing junk), the        *)
(* boundaries 4096, 65535 and their successors in decimal and hex, and     *)
(* the boolean words in lower, upper and mixed case with near misses.      *)
(***************************************************************************)
EXTENDS ParseUtil

MCNumberTexts ==
  {<<>>,
    <<" ">>,
    <<"-">>,
    <<"0">>,
    <<"1">>,
    <<"7">>,
    <<"9">>,
    <<"X">>,
    <<"f">>,
    <<"x">>,
    <<" ", " ">>,
    <<" ", "-">>,
    <<" ", "0">>,
    <<" ", "1">>,
    <<" ", "7">>,
    <<" ", "9">>,
    <<" ", "X">>,
    <<" ", "f">>,
    <<" ", "x">>,
    <<"-", " ">>,
    <<"-", "-">>,
    <<"-", "0">>,
    <<"-", "1">>,
    <<"-", "7">>,
    <<"-", "9">>,
    <<"-", "X">>,
    <<"-", "f">>,
    <<"-", "x">>,
    <<"0", " ">>,
    <<"0", "-">>,
    <<"0", "0">>,
    <<"0", "1">>,
    <<"0", "7">>,
    <<"0", "9">>,
    <<"0", "X">>,
    <<"0", "f">>,
    <<"0", "x">>,
    <<"1", " ">>,
    <<"1", "-">>,
    <<"1", "0">>,
    <<"1", "1">>,
    <<"1", "7">>,
    <<"1", "9">>,
    <<"1", "X">>,
    <<"1", "f">>,
    <<"1", "x">>,
    <<"7", " ">>,
    <<"7", "-">>,
    <<"7", "0">>,
    <<"7", "1">>,
    <<"7", "7">>,
    <<"7", "9">>,
    <<"7", "X">>,
    <<"7", "f">>,
    <<"7", "x">>,
    <<"9", " ">>,
    <<"9", "-">>,
    <<"9", "0">>,
    <<"9", "1">>,
    <<"9", "7">>,
    <<"9", "9">>,
    <<"9", "X">>,
    <<"9", "f">>,
    <<"9", "x">>,
    <<"X", " ">>,
    <<"X", "-">>,
    <<"X", "0">>,
    <<"X", "1">>,
    <<"X", "7">>,
    <<"X", "9">>,
    <<"X", "X">>,
    <<"X", "f">>,
    <<"X", "x">>,
    <<"f", " ">>,
    <<"f", "-">>,
    <<"f", "0">>,
    <<"f", "1">>,
    <<"f", "7">>,
    <<"f", "9">>,
    <<"f", "X">>,
    <<"f", "f">>,
    <<"f", "x">>,
    <<"x", " ">>,
    <<"x", "-">>,
    <<"x", "0">>,
    <<"x", "1">>,
    <<"x", "7">>,
    <<"x", "9">>,
    <<"x", "X">>,
    <<"x", "f">>,
    <<"x", "x">>,
    <<" ", " ", " ">>,
    <<" ", " ", "-">>,
    <<" ", " ", "0">>,
    <<" ", " ", "1">>,
    <<" ", " ", "7">>,
    <<" ", " ", "9">>,
    <<" ", " ", "X">>,
    <<" ", " ", "f">>,
    <<" ", " ", "x">>,
    <<" ", "-", " ">>,
    <<" ", "-", "-">>,
    <<" ", "-", "0">>,
    <<" ", "-", "1">>,
    <<" ", "-", "7">>,
    <<" ", "-", "9">>,
    <<" ", "-", "X">>,
    <<" ", "-", "f">>,
    <<" ", "-", "x">>,
    <<" ", "0", " ">>,
    <<" ", "0", "-">>,
    <<" ", "0", "0">>,
    <<" ", "0", "1">>,
    <<" ", "0", "7">>,
    <<" ", "0", "9">>,
    <<" ", "0", "X">>,
    <<" ", "0", "f">>,
    <<" ", "0", "x">>,
    <<" ", "1", " ">>,
    <<" ", "1", "-">>,
    <<" ", "1", "0">>,
    <<" ", "1", "1">>,
    <<" ", "1", "7">>,
    <<" ", "1", "9">>,
    <<" ", "1", "X">>,
    <<" ", "1", "f">>,
    <<" ", "1", "x">>,
    <<" ", "7", " ">>,
    <<" ", "7", "-">>,
    <<" ", "7", "0">>,
    <<" ", "7", "1">>,
    <<" ", "7", "7">>,
    <<" ", "7", "9">>,
    <<" ", "7", "X">>,
    <<" ", "7", "f">>,
    <<" ", "7", "x">>,
    <<" ", "9", " ">>,
    <<" ", "9", "-">>,
    <<" ", "9", "0">>,
    <<" ", "9", "1">>,
    <<" ", "9", "7">>,
    <<" ", "9", "9">>,
    <<" ", "9", "X">>,
    <<" ", "9", "f">>,
    <<" ", "9", "x">>,
    <<" ", "X", " ">>,
    <<" ", "X", "-">>,
    <<" ", "X", "0">>,
    <<" ", "X", "1">>,
    <<" ", "X", "7">>,
    <<" ", "X", "9">>,
    <<" ", "X", "X">>,
    <<" ", "X", "f">>,
    <<" ", "X", "x">>,
    <<" ", "f", " ">>,
    <<" ", "f", "-">>,
    <<" ", "f", "0">>,
    <<" ", "f", "1">>,
    <<" ", "f", "7">>,
    <<" ", "f", "9">>,
    <<" ", "f", "X">>,
    <<" ", "f", "f">>,
    <<" ", "f", "x">>,
    <<" ", "x", " ">>,
    <<" ", "x", "-">>,
    <<" ", "x", "0">>,
    <<" ", "x", "1">>,
    <<" ", "x", "7">>,
    <<" ", "x", "9">>,
    <<" ", "x", "X">>,
    <<" ", "x", "f">>,
    <<" ", "x", "x">>,
    <<"+", "1", "2">>,
    <<"-", " ", " ">>,
    <<"-", " ", "-">>,
    <<"-", " ", "0">>,
    <<"-", " ", "1">>,
    <<"-", " ", "7">>,
    <<"-", " ", "9">>,
    <<"-", " ", "X">>,
    <<"-", " ", "f">>,
    <<"-", " ", "x">>,
    <<"-", "-", " ">>,
    <<"-", "-", "-">>,
    <<"-", "-", "0">>,
    <<"-", "-", "1">>,
    <<"-", "-", "7">>,
    <<"-", "-", "9">>,
    <<"-", "-", "X">>,
    <<"-", "-", "f">>,
    <<"-", "-", "x">>,
    <<"-", "0", " ">>,
    <<"-", "0", "-">>,
    <<"-", "0", "0">>,
    <<"-", "0", "1">>,
    <<"-", "0", "7">>,
    <<"-", "0", "9">>,
    <<"-", "0", "X">>,
    <<"-", "0", "f">>,
    <<"-", "0", "x">>,
    <<"-", "1", " ">>,
    <<"-", "1", "-">>,
    <<"-", "1", "0">>,
    <<"-", "1", "1">>,
    <<"-", "1", "7">>,
    <<"-", "1", "9">>,
    <<"-", "1", "X">>,
    <<"-", "1", "f">>,
    <<"-", "1", "x">>,
    <<"-", "7", " ">>,
    <<"-", "7", "-">>,
    <<"-", "7", "0">>,
    <<"-", "7", "1">>,
    <<"-", "7", "7">>,
    <<"-", "7", "9">>,
    <<"-", "7", "X">>,
    <<"-", "7", "f">>,
    <<"-", "7", "x">>,
    <<"-", "9", " ">>,
    <<"-", "9", "-">>,
    <<"-", "9", "0">>,
    <<"-", "9", "1">>,
    <<"-", "9", "7">>,
    <<"-", "9", "9">>,
    <<"-", "9", "X">>,
    <<"-", "9", "f">>,
    <<"-", "9", "x">>,
    <<"-", "X", " ">>,
    <<"-", "X", "-">>,
    <<"-", "X", "0">>,
    <<"-", "X", "1">>,
    <<"-", "X", "7">>,
    <<"-", "X", "9">>,
    <<"-", "X", "X">>,
    <<"-", "X", "f">>,
    <<"-", "X", "x">>,
    <<"-", "f", " ">>,
    <<"-", "f", "-">>,
    <<"-", "f", "0">>,
    <<"-", "f", "1">>,
    <<"-", "f", "7">>,
    <<"-", "f", "9">>,
    <<"-", "f", "X">>,
    <<"-", "f", "f">>,
    <<"-", "f", "x">>,
    <<"-", "x", " ">>,
    <<"-", "x", "-">>,
    <<"-", "x", "0">>,
    <<"-", "x", "1">>,
    <<"-", "x", "7">>,
    <<"-", "x", "9">>,
    <<"-", "x", "X">>,
    <<"-", "x", "f">>,
    <<"-", "x", "x">>,
    <<"0", " ", " ">>,
    <<"0", " ", "-">>,
    <<"0", " ", "0">>,
    <<"0", " ", "1">>,
    <<"0", " ", "7">>,
    <<"0", " ", "9">>,
    <<"0", " ", "X">>,
    <<"0", " ", "f">>,
    <<"0", " ", "x">>,
    <<"0", "-", " ">>,
    <<"0", "-", "-">>,
    <<"0", "-", "0">>,
    <<"0", "-", "1">>,
    <<"0", "-", "7">>,
    <<"0", "-", "9">>,
    <<"0", "-", "X">>,
    <<"0", "-", "f">>,
    <<"0", "-", "x">>,
    <<"0", "0", " ">>,
    <<"0", "0", "-">>,
    <<"0", "0", "0">>,
    <<"0", "0", "1">>,
    <<"0", "0", "7">>,
    <<"0", "0", "9">>,
    <<"0", "0", "X">>,
    <<"0", "0", "f">>,
    <<"0", "0", "x">>,
    <<"0", "1", " ">>,
    <<"0", "1", "-">>,
    <<"0", "1", "0">>,
    <<"0", "1", "1">>,
    <<"0", "1", "7">>,
    <<"0", "1", "9">>,
    <<"0", "1", "X">>,
    <<"0", "1", "f">>,
    <<"0", "1", "x">>,
    <<"0", "7", " ">>,
    <<"0", "7", "-">>,
    <<"0", "7", "0">>,
    <<"0", "7", "1">>,
    <<"0", "7", "7">>,
    <<"0", "7", "9">>,
    <<"0", "7", "X">>,
    <<"0", "7", "f">>,
    <<"0", "7", "x">>,
    <<"0", "9", " ">>,
    <<"0", "9", "-">>,
    <<"0", "9", "0">>,
    <<"0", "9", "1">>,
    <<"0", "9", "7">>,
    <<"0", "9", "9">>,
    <<"0", "9", "X">>,
    <<"0", "9", "f">>,
    <<"0", "9", "x">>,
    <<"0", "X", " ">>,
    <<"0", "X", "-">>,
    <<"0", "X", "0">>,
    <<"0", "X", "1">>,
    <<"0", "X", "7">>,
    <<"0", "X", "9">>,
    <<"0", "X", "X">>,
    <<"0", "X", "f">>,
    <<"0", "X", "x">>,
    <<"0", "f", " ">>,
    <<"0", "f", "-">>,
    <<"0", "f", "0">>,
    <<"0", "f", "1">>,
    <<"0", "f", "7">>,
    <<"0", "f", "9">>,
    <<"0", "f", "X">>,
    <<"0", "f", "f">>,
    <<"0", "f", "x">>,
    <<"0", "x", " ">>,
    <<"0", "x", "-">>,
    <<"0", "x", "0">>,
    <<"0", "x", "1">>,
    <<"0", "x", "7">>,
    <<"0", "x", "9">>,
    <<"0", "x", "X">>,
    <<"0", "x", "f">>,
    <<"0", "x", "x">>,
    <<"1", " ", " ">>,
    <<"1", " ", "-">>,
    <<"1", " ", "0">>,
    <<"1", " ", "1">>,
    <<"1", " ", "7">>,
    <<"1", " ", "9">>,
    <<"1", " ", "X">>,
    <<"1", " ", "f">>,
    <<"1", " ", "x">>,
    <<"1", "-", " ">>,
    <<"1", "-", "-">>,
    <<"1", "-", "0">>,
    <<"1", "-", "1">>,
    <<"1", "-", "7">>,
    <<"1", "-", "9">>,
    <<"1", "-", "X">>,
    <<"1", "-", "f">>,
    <<"1", "-", "x">>,
    <<"1", "0", " ">>,
    <<"1", "0", "-">>,
    <<"1", "0", "0">>,
    <<"1", "0", "1">>,
    <<"1", "0", "7">>,
    <<"1", "0", "9">>,
    <<"1", "0", "X">>,
    <<"1", "0", "f">>,
    <<"1", "0", "x">>,
    <<"1", "1", " ">>,
    <<"1", "1", "-">>,
    <<"1", "1", "0">>,
    <<"1", "1", "1">>,
    <<"1", "1", "7">>,
    <<"1", "1", "9">>,
    <<"1", "1", "X">>,
    <<"1", "1", "f">>,
    <<"1", "1", "x">>,
    <<"1", "7", " ">>,
    <<"1", "7", "-">>,
    <<"1", "7", "0">>,
    <<"1", "7", "1">>,
    <<"1", "7", "7">>,
    <<"1", "7", "9">>,
    <<"1", "7", "X">>,
    <<"1", "7", "f">>,
    <<"1", "7", "x">>,
    <<"1", "9", " ">>,
    <<"1", "9", "-">>,
    <<"1", "9", "0">>,
    <<"1", "9", "1">>,
    <<"1", "9", "7">>,
    <<"1", "9", "9">>,
    <<"1", "9", "X">>,
    <<"1", "9", "f">>,
    <<"1", "9", "x">>,
    <<"1", "X", " ">>,
    <<"1", "X", "-">>,
    <<"1", "X", "0">>,
    <<"1", "X", "1">>,
    <<"1", "X", "7">>,
    <<"1", "X", "9">>,
    <<"1", "X", "X">>,
    <<"1", "X", "f">>,
    <<"1", "X", "x">>,
    <<"1", "f", " ">>,
    <<"1", "f", "-">>,
    <<"1", "f", "0">>,
    <<"1", "f", "1">>,
    <<"1", "f", "7">>,
    <<"1", "f", "9">>,
    <<"1", "f", "X">>,
    <<"1", "f", "f">>,
    <<"1", "f", "x">>,
    <<"1", "x", " ">>,
    <<"1", "x", "-">>,
    <<"1", "x", "0">>,
    <<"1", "x", "1">>,
    <<"1", "x", "7">>,
    <<"1", "x", "9">>,
    <<"1", "x", "X">>,
    <<"1", "x", "f">>,
    <<"1", "x", "x">>,
    <<"7", " ", " ">>,
    <<"7", " ", "-">>,
    <<"7", " ", "0">>,
    <<"7", " ", "1">>,
    <<"7", " ", "7">>,
    <<"7", " ", "9">>,
    <<"7", " ", "X">>,
    <<"7", " ", "f">>,
    <<"7", " ", "x">>,
    <<"7", "-", " ">>,
    <<"7", "-", "-">>,
    <<"7", "-", "0">>,
    <<"7", "-", "1">>,
    <<"7", "-", "7">>,
    <<"7", "-", "9">>,
    <<"7", "-", "X">>,
    <<"7", "-", "f">>,
    <<"7", "-", "x">>,
    <<"7", "0", " ">>,
    <<"7", "0", "-">>,
    <<"7", "0", "0">>,
    <<"7", "0", "1">>,
    <<"7", "0", "7">>,
    <<"7", "0", "9">>,
    <<"7", "0", "X">>,
    <<"7", "0", "f">>,
    <<"7", "0", "x">>,
    <<"7", "1", " ">>,
    <<"7", "1", "-">>,
    <<"7", "1", "0">>,
    <<"7", "1", "1">>,
    <<"7", "1", "7">>,
    <<"7", "1", "9">>,
    <<"7", "1", "X">>,
    <<"7", "1", "f">>,
    <<"7", "1", "x">>,
    <<"7", "7", " ">>,
    <<"7", "7", "-">>,
    <<"7", "7", "0">>,
    <<"7", "7", "1">>,
    <<"7", "7", "7">>,
    <<"7", "7", "9">>,
    <<"7", "7", "X">>,
    <<"7", "7", "f">>,
    <<"7", "7", "x">>,
    <<"7", "9", " ">>,
    <<"7", "9", "-">>,
    <<"7", "9", "0">>,
    <<"7", "9", "1">>,
    <<"7", "9", "7">>,
    <<"7", "9", "9">>,
    <<"7", "9", "X">>,
    <<"7", "9", "f">>,
    <<"7", "9", "x">>,
    <<"7", "X", " ">>,
    <<"7", "X", "-">>,
    <<"7", "X", "0">>,
    <<"7", "X", "1">>,
    <<"7", "X", "7">>,
    <<"7", "X", "9">>,
    <<"7", "X", "X">>,
    <<"7", "X", "f">>,
    <<"7", "X", "x">>,
    <<"7", "f", " ">>,
    <<"7", "f", "-">>,
    <<"7", "f", "0">>,
    <<"7", "f", "1">>,
    <<"7", "f", "7">>,
    <<"7", "f", "9">>,
    <<"7", "f", "X">>,
    <<"7", "f", "f">>,
    <<"7", "f", "x">>,
    <<"7", "x", " ">>,
    <<"7", "x", "-">>,
    <<"7", "x", "0">>,
    <<"7", "x", "1">>,
    <<"7", "x", "7">>,
    <<"7", "x", "9">>,
    <<"7", "x", "X">>,
    <<"7", "x", "f">>,
    <<"7", "x", "x">>,
    <<"9", " ", " ">>,
    <<"9", " ", "-">>,
    <<"9", " ", "0">>,
    <<"9", " ", "1">>,
    <<"9", " ", "7">>,
    <<"9", " ", "9">>,
    <<"9", " ", "X">>,
    <<"9", " ", "f">>,
    <<"9", " ", "x">>,
    <<"9", "-", " ">>,
    <<"9", "-", "-">>,
    <<"9", "-", "0">>,
    <<"9", "-", "1">>,
    <<"9", "-", "7">>,
    <<"9", "-", "9">>,
    <<"9", "-", "X">>,
    <<"9", "-", "f">>,
    <<"9", "-", "x">>,
    <<"9", "0", " ">>,
    <<"9", "0", "-">>,
    <<"9", "0", "0">>,
    <<"9", "0", "1">>,
    <<"9", "0", "7">>,
    <<"9", "0", "9">>,
    <<"9", "0", "X">>,
    <<"9", "0", "f">>,
    <<"9", "0", "x">>,
    <<"9", "1", " ">>,
    <<"9", "1", "-">>,
    <<"9", "1", "0">>,
    <<"9", "1", "1">>,
    <<"9", "1", "7">>,
    <<"9", "1", "9">>,
    <<"9", "1", "X">>,
    <<"9", "1", "f">>,
    <<"9", "1", "x">>,
    <<"9", "7", " ">>,
    <<"9", "7", "-">>,
    <<"9", "7", "0">>,
    <<"9", "7", "1">>,
    <<"9", "7", "7">>,
    <<"9", "7", "9">>,
    <<"9", "7", "X">>,
    <<"9", "7", "f">>,
    <<"9", "7", "x">>,
    <<"9", "9", " ">>,
    <<"9", "9", "-">>,
    <<"9", "9", "0">>,
    <<"9", "9", "1">>,
    <<"9", "9", "7">>,
    <<"9", "9", "9">>,
    <<"9", "9", "X">>,
    <<"9", "9", "f">>,
    <<"9", "9", "x">>,
    <<"9", "X", " ">>,
    <<"9", "X", "-">>,
    <<"9", "X", "0">>,
    <<"9", "X", "1">>,
    <<"9", "X", "7">>,
    <<"9", "X", "9">>,
    <<"9", "X", "X">>,
    <<"9", "X", "f">>,
    <<"9", "X", "x">>,
    <<"9", "f", " ">>,
    <<"9", "f", "-">>,
    <<"9", "f", "0">>,
    <<"9", "f", "1">>,
    <<"9", "f", "7">>,
    <<"9", "f", "9">>,
    <<"9", "f", "X">>,
    <<"9", "f", "f">>,
    <<"9", "f", "x">>,
    <<"9", "x", " ">>,
    <<"9", "x", "-">>,
    <<"9", "x", "0">>,
    <<"9", "x", "1">>,
    <<"9", "x", "7">>,
    <<"9", "x", "9">>,
    <<"9", "x", "X">>,
    <<"9", "x", "f">>,
    <<"9", "x", "x">>,
    <<"X", " ", " ">>,
    <<"X", " ", "-">>,
    <<"X", " ", "0">>,
    <<"X", " ", "1">>,
    <<"X", " ", "7">>,
    <<"X", " ", "9">>,
    <<"X", " ", "X">>,
    <<"X", " ", "f">>,
    <<"X", " ", "x">>,
    <<"X", "-", " ">>,
    <<"X", "-", "-">>,
    <<"X", "-", "0">>,
    <<"X", "-", "1">>,
    <<"X", "-", "7">>,
    <<"X", "-", "9">>,
    <<"X", "-", "X">>,
    <<"X", "-", "f">>,
    <<"X", "-", "x">>,
    <<"X", "0", " ">>,
    <<"X", "0", "-">>,
    <<"X", "0", "0">>,
    <<"X", "0", "1">>,
    <<"X", "0", "7">>,
    <<"X", "0", "9">>,
    <<"X", "0", "X">>,
    <<"X", "0", "f">>,
    <<"X", "0", "x">>,
    <<"X", "1", " ">>,
    <<"X", "1", "-">>,
    <<"X", "1", "0">>,
    <<"X", "1", "1">>,
    <<"X", "1", "7">>,
    <<"X", "1", "9">>,
    <<"X", "1", "X">>,
    <<"X", "1", "f">>,
    <<"X", "1", "x">>,
    <<"X", "7", " ">>,
    <<"X", "7", "-">>,
    <<"X", "7", "0">>,
    <<"X", "7", "1">>,
    <<"X", "7", "7">>,
    <<"X", "7", "9">>,
    <<"X", "7", "X">>,
    <<"X", "7", "f">>,
    <<"X", "7", "x">>,
    <<"X", "9", " ">>,
    <<"X", "9", "-">>,
    <<"X", "9", "0">>,
    <<"X", "9", "1">>,
    <<"X", "9", "7">>,
    <<"X", "9", "9">>,
    <<"X", "9", "X">>,
    <<"X", "9", "f">>,
    <<"X", "9", "x">>,
    <<"X", "X", " ">>,
    <<"X", "X", "-">>,
    <<"X", "X", "0">>,
    <<"X", "X", "1">>,
    <<"X", "X", "7">>,
    <<"X", "X", "9">>,
    <<"X", "X", "X">>,
    <<"X", "X", "f">>,
    <<"X", "X", "x">>,
    <<"X", "f", " ">>,
    <<"X", "f", "-">>,
    <<"X", "f", "0">>,
    <<"X", "f", "1">>,
    <<"X", "f", "7">>,
    <<"X", "f", "9">>,
    <<"X", "f", "X">>,
    <<"X", "f", "f">>,
    <<"X", "f", "x">>,
    <<"X", "x", " ">>,
    <<"X", "x", "-">>,
    <<"X", "x", "0">>,
    <<"X", "x", "1">>,
    <<"X", "x", "7">>,
    <<"X", "x", "9">>,
    <<"X", "x", "X">>,
    <<"X", "x", "f">>,
    <<"X", "x", "x">>,
    <<"f", " ", " ">>,
    <<"f", " ", "-">>,
    <<"f", " ", "0">>,
    <<"f", " ", "1">>,
    <<"f", " ", "7">>,
    <<"f", " ", "9">>,
    <<"f", " ", "X">>,
    <<"f", " ", "f">>,
    <<"f", " ", "x">>,
    <<"f", "-", " ">>,
    <<"f", "-", "-">>,
    <<"f", "-", "0">>,
    <<"f", "-", "1">>,
    <<"f", "-", "7">>,
    <<"f", "-", "9">>,
    <<"f", "-", "X">>,
    <<"f", "-", "f">>,
    <<"f", "-", "x">>,
    <<"f", "0", " ">>,
    <<"f", "0", "-">>,
    <<"f", "0", "0">>,
    <<"f", "0", "1">>,
    <<"f", "0", "7">>,
    <<"f", "0", "9">>,
    <<"f", "0", "X">>,
    <<"f", "0", "f">>,
    <<"f", "0", "x">>,
    <<"f", "1", " ">>,
    <<"f", "1", "-">>,
    <<"f", "1", "0">>,
    <<"f", "1", "1">>,
    <<"f", "1", "7">>,
    <<"f", "1", "9">>,
    <<"f", "1", "X">>,
    <<"f", "1", "f">>,
    <<"f", "1", "x">>,
    <<"f", "7", " ">>,
    <<"f", "7", "-">>,
    <<"f", "7", "0">>,
    <<"f", "7", "1">>,
    <<"f", "7", "7">>,
    <<"f", "7", "9">>,
    <<"f", "7", "X">>,
    <<"f", "7", "f">>,
    <<"f", "7", "x">>,
    <<"f", "9", " ">>,
    <<"f", "9", "-">>,
    <<"f", "9", "0">>,
    <<"f", "9", "1">>,
    <<"f", "9", "7">>,
    <<"f", "9", "9">>,
    <<"f", "9", "X">>,
    <<"f", "9", "f">>,
    <<"f", "9", "x">>,
    <<"f", "X", " ">>,
    <<"f", "X", "-">>,
    <<"f", "X", "0">>,
    <<"f", "X", "1">>,
    <<"f", "X", "7">>,
    <<"f", "X", "9">>,
    <<"f", "X", "X">>,
    <<"f", "X", "f">>,
    <<"f", "X", "x">>,
    <<"f", "f", " ">>,
    <<"f", "f", "-">>,
    <<"f", "f", "0">>,
    <<"f", "f", "1">>,
    <<"f", "f", "7">>,
    <<"f", "f", "9">>,
    <<"f", "f", "X">>,
    <<"f", "f", "f">>,
    <<"f", "f", "x">>,
    <<"f", "x", " ">>,
    <<"f", "x", "-">>,
    <<"f", "x", "0">>,
    <<"f", "x", "1">>,
    <<"f", "x", "7">>,
    <<"f", "x", "9">>,
    <<"f", "x", "X">>,
    <<"f", "x", "f">>,
    <<"f", "x", "x">>,
    <<"x", " ", " ">>,
    <<"x", " ", "-">>,
    <<"x", " ", "0">>,
    <<"x", " ", "1">>,
    <<"x", " ", "7">>,
    <<"x", " ", "9">>,
    <<"x", " ", "X">>,
    <<"x", " ", "f">>,
    <<"x", " ", "x">>,
    <<"x", "-", " ">>,
    <<"x", "-", "-">>,
    <<"x", "-", "0">>,
    <<"x", "-", "1">>,
    <<"x", "-", "7">>,
    <<"x", "-", "9">>,
    <<"x", "-", "X">>,
    <<"x", "-", "f">>,
    <<"x", "-", "x">>,
    <<"x", "0", " ">>,
    <<"x", "0", "-">>,
    <<"x", "0", "0">>,
    <<"x", "0", "1">>,
    <<"x", "0", "7">>,
    <<"x", "0", "9">>,
    <<"x", "0", "X">>,
    <<"x", "0", "f">>,
    <<"x", "0", "x">>,
    <<"x", "1", " ">>,
    <<"x", "1", "-">>,
    <<"x", "1", "0">>,
    <<"x", "1", "1">>,
    <<"x", "1", "7">>,
    <<"x", "1", "9">>,
    <<"x", "1", "X">>,
    <<"x", "1", "f">>,
    <<"x", "1", "x">>,
    <<"x", "7", " ">>,
    <<"x", "7", "-">>,
    <<"x", "7", "0">>,
    <<"x", "7", "1">>,
    <<"x", "7", "7">>,
    <<"x", "7", "9">>,
    <<"x", "7", "X">>,
    <<"x", "7", "f">>,
    <<"x", "7", "x">>,
    <<"x", "9", " ">>,
    <<"x", "9", "-">>,
    <<"x", "9", "0">>,
    <<"x", "9", "1">>,
    <<"x", "9", "7">>,
    <<"x", "9", "9">>,
    <<"x", "9", "X">>,
    <<"x", "9", "f">>,
    <<"x", "9", "x">>,
    <<"x", "X", " ">>,
    <<"x", "X", "-">>,
    <<"x", "X", "0">>,
    <<"x", "X", "1">>,
    <<"x", "X", "7">>,
    <<"x", "X", "9">>,
    <<"x", "X", "X">>,
    <<"x", "X", "f">>,
    <<"x", "X", "x">>,
    <<"x", "f", " ">>,
    <<"x", "f", "-">>,
    <<"x", "f", "0">>,
    <<"x", "f", "1">>,
    <<"x", "f", "7">>,
    <<"x", "f", "9">>,
    <<"x", "f", "X">>,
    <<"x", "f", "f">>,
    <<"x", "f", "x">>,
    <<"x", "x", " ">>,
    <<"x", "x", "-">>,
    <<"x", "x", "0">>,
    <<"x", "x", "1">>,
    <<"x", "x", "7">>,
    <<"x", "x", "9">>,
    <<"x", "x", "X">>,
    <<"x", "x", "f">>,
    <<"x", "x", "x">>,
    <<"4", "0", "9", "6">>,
    <<"4", "0", "9", "7">>,
    <<"6", "5", "5", "3", "5">>,
    <<"6", "5", "5", "3", "6">>,
    <<"9", "9", "9", "9", "9">>,
    <<"0", "x", "1", "0", "0", "0">>,
    <<"0", "x", "1", "0", "0", "1">>,
    <<"0", "x", "F", "F", "F", "F">>,
    <<"0", "x", "1", "0", "0", "0", "0">>}

MCWordTexts ==
  {<<"1">>,
    <<"0">>,
    <<"2">>,
    <<"y", "e", "s">>,
    <<"Y", "E", "S">>,
    <<"Y", "e", "s">>,
    <<"y">>,
    <<"Y">>,
    <<"t", "r", "u", "e">>,
    <<"T", "R", "U", "E">>,
    <<"T", "r", "u", "e">>,
    <<"t">>,
    <<"T">>,
    <<"o", "n">>,
    <<"O", "N">>,
    <<"O", "n">>,
    <<"n", "o">>,
    <<"N", "O">>,
    <<"N", "o">>,
    <<"n">>,
    <<"N">>,
    <<"f", "a", "l", "s", "e">>,
    <<"F", "A", "L", "S", "E">>,
    <<"f">>,
    <<"F">>,
    <<"o", "f", "f">>,
    <<"O", "F", "F">>,
    <<"O", "f", "f">>,
    <<"y", "e", "s", "s">>,
    <<"n", "o", "p", "e">>,
    <<"o", "N">>,
    <<>>}
=============================================================================
