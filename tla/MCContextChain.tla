--------------------------- MODULE MCContextChain ---------------------------
(* ContextChain with a handful of characters, label values and overrides.  *)
EXTENDS ContextChain

CONSTANTS a, b, A, B, dash, bang    \* characters: two letters, their capitals, '-' and '!'

MCAtom    == {a, b, A, B, dash, bang}
MCSpecial == {bang}
MCLower   == [c \in MCAtom |-> CASE c = A -> a [] c = B -> b [] OTHER -> c]
MCUpper   == [c \in MCAtom |-> CASE c = a -> A [] c = b -> B [] OTHER -> c]

\* A hash of 2^5 values whose digits are the letters a and b, so that four contexts are
\* enough for two long names to share it; the five hex digits of the code have 2^20.
MCHexDigit(s, i) ==
  LET code  == (a :> 1) @@ (b :> 2) @@ (A :> 3) @@ (B :> 4) @@ (dash :> 5) @@ (bang :> 6)
      value == FoldLeft(LAMBDA h, c : (h * 7 + code[c]) % 32, 1, s)
  IN  IF (value \div 2^(i - 1)) % 2 = 0 THEN a ELSE b

\* A plain root, one with capitals and stripped characters and an upper-case key
\* style, and one whose full id is long enough to be cut at 6 and 8.
MCRootProps ==
  { [name |-> <<A>>, tags |-> [Owner |-> <<a>>]],
    [namespace |-> <<a, bang>>, stage |-> <<B>>, name |-> <<a, b>>, labelKeyCase |-> "lower",
     additionalTagMap |-> [Team |-> <<a>>]],
    [namespace |-> <<a, b, a, b>>, name |-> <<b, A, b, A>>, labelValueCase |-> "title",
     idLengthLimit |-> 8, enabled |-> TRUE] }

MCOverrides ==
  { [attributes |-> << <<a>> >>],
    [attributes |-> << <<b, dash, a>>, << >> >>],
    [name |-> << >>, stage |-> <<A>>],
    [name |-> <<bang>>, tags |-> [Owner |-> <<b>>]],
    [enabled |-> FALSE],
    [enabled |-> TRUE, tenant |-> <<b>>],
    [additionalTagMap |-> [Team |-> <<b>>, Owner |-> <<b>>]],
    [tags |-> [Name |-> <<b>>]],
    [idLengthLimit |-> 6, labelsAsTags |-> <<"owner", "stage", "name">>],
    [labelOrder |-> <<"name", "owner", "stage">>, labelValueCase |-> "none", labelKeyCase |-> "upper"],
    [delimiter |-> << >>, labelOrder |-> <<"attributes", "name">>, regexReplaceChars |-> {dash}] }

\* A deployment with every optional key, and platform outputs besides; one without.
MCConfigs ==
  { [namespace |-> <<a, bang>>, environment |-> <<b>>, stage |-> <<A>>, tenant |-> <<b>>,
     idLengthLimit |-> 6, enabled |-> TRUE, tags |-> [Owner |-> <<b>>], vpcId |-> "vpc"],
    [namespace |-> <<b>>, environment |-> <<b>>, stage |-> << >>],
    [namespace |-> <<b>>, environment |-> <<a>>, stage |-> <<a>>, delimiter |-> << >>,
     enabled |-> FALSE] }
=============================================================================
