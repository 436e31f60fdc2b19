---------------------------- MODULE MobileTokens ----------------------------
(***************************************************************************)
(* struct MobileTokens (components/Application/System.h): the tokens of    *)
(* the phones that get notifications, in a ring of TOKEN_COUNT places.  No *)
(* caller passes a group, so the group fields are left out.                *)
(***************************************************************************)
EXTENDS Integers, Sequences

CONSTANTS Token, Os,
          TokenCount   \* TOKEN_COUNT

ASSUME TokenCountAssumption == TokenCount \in Nat \ {0}

Empty == [str |-> "", os |-> "", on |-> FALSE]   \* the zeroes of the static object

\* MobileTokens::init
NoTokens == [head |-> 0, count |-> 0, tokens |-> [i \in 0 .. TokenCount - 1 |-> Empty]]

Place(r, index) == (r.head + index) % TokenCount

\* token(index)
TokenAt(r, index) == r.tokens[Place(r, index)]

\* The first index with this token, or -1.
FindToken(r, t) ==
    LET found == {index \in 0 .. r.count - 1 : TokenAt(r, index).str = t}
    IN  IF found = {} THEN -1 ELSE CHOOSE i \in found : \A j \in found : i <= j

\* The place of a token is kept when it is known; its system is not set again.
SetToken(r, on, os, t) ==
    LET index == FindToken(r, t)
        entry == [str |-> t, os |-> os, on |-> on]
    IN  IF index # -1
          THEN [r EXCEPT !.tokens[Place(r, index)].on = on]
        ELSE IF r.count < TokenCount
          THEN [r EXCEPT !.tokens[Place(r, r.count)] = entry, !.count = @ + 1]
        ELSE [r EXCEPT !.tokens[r.head] = entry, !.head = (@ + 1) % TokenCount]

\* System::tokenEnabled, the answer to CheckPNTokenEnabled
TokenEnabled(r, os, t) ==
    LET index == FindToken(r, t)
    IN  index # -1 /\ TokenAt(r, index).os = os /\ TokenAt(r, index).on
==============================================================================
