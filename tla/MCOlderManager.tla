---------------------------- MODULE MCOlderManager ----------------------------
(* A small instance of OlderManager: "f" opens, "p" is the /proc file, "w" a  *)
(* kind of protection.  A line has no character, one, or two, the second of   *)
(* them one that is a command or a kind.                                           *)
EXTENDS OlderManager

MCDigit == {"2", "9"}
MCChar == MCDigit \cup {"f", "p", "w"}
MCPath == MCChar \cup {"", "longer"}
MCLookup == [p \in MCPath |-> IF p = "f" THEN "i1" ELSE IF p = "p" THEN "i2" ELSE NULL]
MCTyped == {<<NewLine>>} \cup {<<c, NewLine>> : c \in MCChar}
           \cup {<<c, d, NewLine>> : c \in MCChar, d \in {"2", "w"}}
=============================================================================
