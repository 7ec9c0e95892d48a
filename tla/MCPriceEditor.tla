---------------------------- MODULE MCPriceEditor ----------------------------
EXTENDS PriceEditor

Within == <<Time(">=", 1), Op("&&"), Time("<", 2)>>
Overnight == <<Time(">=", 3), Op("||"), Time("<", 1)>>
Legacy == <<Time(">=", 1), Op("||"), Time("<", 2)>>
Param1 == <<Param("eq")>>

Plain == <<Price(3)>>
Tiered == <<Price(3), Op("?"), Price(5)>>
Sum == <<Price(3), Op("+"), Price(5)>>
Times(x, y) == x \o <<Op("*")>> \o y
Ruled(c) == <<Rule(c, 2)>>

\* Products, with rules that cards can show and rules that they cannot; Legacy is
\* how ranges within the day used to be written.
Products == {
    Plain, Tiered, Sum,
    Times(Plain, Ruled(Within)),
    Times(Plain, Ruled(Legacy)),
    Times(Times(<<Paren(Tiered)>>, Ruled(Overnight)), <<Rule(Param1, 3)>>),
    Times(<<Paren(Sum)>>, Ruled(<<Paren(Overnight), Op("&&"), Param("eq")>>)),
    Times(Ruled(<<Param("exists"), Op("&&"), Param("more")>>), Times(Plain, <<Count>>)),
    Times(Plain, Ruled(<<Time("<", 3), Op("&&"), Time(">=", 1)>>)),
    Times(Tiered, Ruled(Param1)),
    Times(Plain, Times(Plain, Ruled(<<Time("<", Unusable)>>)))}

\* Texts in which a looser operator stands next to the rule, at the top or
\* inside the parentheses of a price per image.
Mixed == {
    Times(Sum, Ruled(Within)),
    Times(Times(<<Paren(Tiered)>>, <<Count>>), Ruled(Within))}

\* Texts with the prefix v1:.
Prefixed == {<<Version>> \o Times(<<Paren(Plain)>>, Ruled(Param1))}

\* Bounds in the wrong order, which a card never matches.
Reversed == {OnTime("gte", 3), OnTime("lt", 1)}
OnlyLegacy == {Times(Plain, Ruled(Legacy))}

\* The text of the expression editor and the cards are recomputed when their
\* mode is entered: what they hold in the other mode is never read.
View == <<stored, mode, base, rules, IF mode = "raw" THEN raw ELSE <<>>,
          IF mode = "visual" THEN cards ELSE <<>>, valid, edited, edits>>

TwoBases == {Plain, Tiered}
Entered == {OnTime("gte", 1), OnTime("lt", 2), OnTime("eq", 0), InRange(1, 2), InRange(2, 2), InRange(3, 1),
            OnParam("eq"), OnParam("more")}
NightPreset == {[expr |-> Tiered,
                 groups |-> <<[conditions |-> <<InRange(3, 1)>>, multiplier |-> 3]>>]}
==============================================================================
