---------------------------- MODULE PriceExpression ----------------------------
(***************************************************************************)
(* The price expressions of the web console: how the expression of a model *)
(* is split into a base price and request rules, how rules are read into   *)
(* the cards of the visual editor, and how cards are written back          *)
(* (web/src/features/pricing/lib/billing-expr.ts, billing-expression/).    *)
(*                                                                         *)
(* A text is the sequence of its top-level tokens.  The inside of a pair   *)
(* of parentheses is one token, as it is to splitExpressionAtTopLevel.     *)
(* "x ? y" stands for "len <= n ? x : y".  One time function in one zone   *)
(* and one request parameter stand for all of them.                        *)
(***************************************************************************)
EXTENDS Integers, SequencesExt

CONSTANT MaxTime        \* the largest value of the time function: 23 of hour()

ASSUME TimeAssumption == MaxTime \in Nat

TimeDomain == 0..MaxTime

\* A value outside the domain, or a field that is still empty.
Unusable == MaxTime + 1

Op(o) == [t |-> "op", op |-> o]
Price(n) == [t |-> "price", amount |-> n]       \* tier("name", ...)
Count == [t |-> "count"]                        \* image_count
Version == [t |-> "version"]                    \* the prefix v1:
Paren(x) == [t |-> "paren", of |-> x]
Rule(c, m) == [t |-> "rule", cond |-> c, multiplier |-> m]   \* (c ? m : 1)

Time(o, v) == [t |-> "time", op |-> o, value |-> v]
Param(test) == [t |-> "param", test |-> test]

(***************************************************************************)
(* Splitting a text.                                                       *)
(***************************************************************************)
Has(x, o) == Contains(x, Op(o))

Before(x, o) == SubSeq(x, 1, SelectInSeq(x, LAMBDA k : k = Op(o)) - 1)

After(x, o) == SubSeq(x, SelectInSeq(x, LAMBDA k : k = Op(o)) + 1, Len(x))

RECURSIVE Pieces(_, _)
Pieces(x, o) == IF Has(x, o) THEN <<Before(x, o)>> \o Pieces(After(x, o), o)
                             ELSE <<x>>

\* splitExpressionAtTopLevel: a conditional is never split.
Split(x, o) == IF Has(x, "?") THEN <<x>> ELSE Pieces(x, o)

RECURSIVE Joined(_, _)
Joined(xs, o) ==
    IF Len(xs) < 2 THEN FlattenSeq(xs)
    ELSE Head(xs) \o <<Op(o)>> \o Joined(Tail(xs), o)

RECURSIVE Unwrapped(_)
Unwrapped(x) ==
    IF Len(x) = 1 /\ x[1].t = "paren" THEN Unwrapped(x[1].of) ELSE x

Versioned(x) == x # <<>> /\ Head(x) = Version

Body(x) == IF Versioned(x) THEN Tail(x) ELSE x

(***************************************************************************)
(* What a text charges in the circumstances e: the engine's precedence.    *)
(***************************************************************************)
Circumstances ==
    [time : TimeDomain, param : {"none", "a", "b"}, short : BOOLEAN]

Images == 2     \* of every request: any number but 1 shows where it is missing

Tests(test, e) == CASE test = "exists" -> e.param # "none"
                    [] test = "eq"     -> e.param = "a"
                    [] test = "more"   -> e.param = "b"

Compares(o, v, e) == CASE o = ">=" -> e.time >= v
                       [] o = "<"  -> e.time < v
                       [] o = "==" -> e.time = v

RECURSIVE Holds(_, _)
Holds(c, e) ==
    IF Has(c, "||") THEN Holds(Before(c, "||"), e) \/ Holds(After(c, "||"), e)
    ELSE IF Has(c, "&&") THEN Holds(Before(c, "&&"), e) /\ Holds(After(c, "&&"), e)
    ELSE LET k == Head(c) IN
         CASE k.t = "paren" -> Holds(k.of, e)
           [] k.t = "time"  -> Compares(k.op, k.value, e)
           [] k.t = "param" -> Tests(k.test, e)

RECURSIVE Amount(_, _)
Amount(x, e) ==
    IF Has(x, "?") THEN Amount(IF e.short THEN Before(x, "?") ELSE After(x, "?"), e)
    ELSE IF Has(x, "+") THEN Amount(Before(x, "+"), e) + Amount(After(x, "+"), e)
    ELSE IF Has(x, "*") THEN Amount(Before(x, "*"), e) * Amount(After(x, "*"), e)
    ELSE LET k == Head(x) IN
         CASE k.t = "price" -> k.amount
           [] k.t = "count" -> Images
           [] k.t = "paren" -> Amount(k.of, e)
           [] k.t = "rule"  -> IF Holds(k.cond, e) THEN k.multiplier ELSE 1

\* The version prefix is only accepted at the head of the whole text.
RECURSIVE Unversioned(_)
Unversioned(x) == \A i \in DOMAIN x : /\ x[i] # Version
                                      /\ x[i].t = "paren" => Unversioned(x[i].of)

Compiles(x) == x # <<>> /\ Unversioned(Body(x))

Charge(x) == IF Compiles(x) THEN [e \in Circumstances |-> Amount(Body(x), e)]
                            ELSE <<>>

(***************************************************************************)
(* Base price and request rules.                                           *)
(***************************************************************************)

\* A factor that compiles to a conditional between a number and 1, which the
\* tracer or the reader of cards recognizes.
Traced(part) == LET y == Unwrapped(Body(part)) IN
    Compiles(part) /\ Len(y) = 1 /\ y[1].t = "rule"

\* splitBillingExprAndRequestRules
SplitRules(x) ==
    LET parts == Split(x, "*")
        rules == SelectSeq(parts, Traced)
        base  == SelectSeq(parts, LAMBDA p : ~Traced(p))
        count == SelectSeq(base, LAMBDA p : Unwrapped(p) = <<Count>>)
    IN IF Len(parts) > 1 /\ rules # <<>> /\ Len(base) - Len(count) = 1
       THEN [base  |-> Joined([i \in DOMAIN base |-> Unwrapped(base[i])], "*"),
             rules |-> Joined(rules, "*")]
       ELSE [base |-> x, rules |-> <<>>]

\* Mutant: the base is not put in parentheses.
Combine_Bare(base, rules) ==
    IF base = <<>> \/ rules = <<>> THEN base ELSE base \o <<Op("*")>> \o rules

\* combineBillingExpr
Combine(base, rules) ==
    IF base = <<>> \/ rules = <<>> THEN base
    ELSE <<Paren(base), Op("*")>> \o rules

(***************************************************************************)
(* Cards: rule groups of the visual editor, and what a reader of the       *)
(* screen takes them to charge.                                            *)
(***************************************************************************)
NoMultiplier == 0

OnTime(mode, v) == [source |-> "time", mode |-> mode, start |-> v, end |-> v]
InRange(s, e) == [source |-> "time", mode |-> "range", start |-> s, end |-> e]
OnParam(mode) == [source |-> "param", mode |-> mode]

EmptyCondition == OnParam("blank")
EmptyTimeCondition == OnTime("gte", Unusable)
EmptyGroup == [conditions |-> <<EmptyCondition>>, multiplier |-> NoMultiplier]

Usable(c) == IF c.source = "time" THEN {c.start, c.end} \subseteq TimeDomain
                                  ELSE c.mode # "blank"

Complete(cards) == \A i \in DOMAIN cards :
    /\ cards[i].multiplier # NoMultiplier
    /\ cards[i].conditions # <<>>
    /\ \A c \in ToSet(cards[i].conditions) : Usable(c)

\* "Start <= end: within the day; start > end: across midnight"
Meets(c, e) ==
    CASE c.source = "param" -> Tests(c.mode, e)
      [] c.mode = "range" -> IF c.start <= c.end
                             THEN e.time >= c.start /\ e.time < c.end
                             ELSE e.time >= c.start \/ e.time < c.end
      [] c.mode = "gte" -> e.time >= c.start
      [] c.mode = "lt"  -> e.time < c.start
      [] c.mode = "eq"  -> e.time = c.start

\* "When conditions match, the final price is multiplied"
GroupFactor(g, e) ==
    IF \A c \in ToSet(g.conditions) : Meets(c, e) THEN g.multiplier ELSE 1

CardsFactor(cards, e) ==
    FoldSeq(LAMBDA g, n : n * GroupFactor(g, e), 1, cards)

(***************************************************************************)
(* Writing cards.                                                          *)
(***************************************************************************)
Scalar(mode) == CASE mode = "eq" -> "==" [] mode = "gte" -> ">=" [] mode = "lt" -> "<"

\* Mutant: every range is written as one across midnight.
BuildTime_AlwaysOr(c) ==
    IF ~Usable(c) THEN <<>>
    ELSE IF c.mode = "range"
    THEN <<Time(">=", c.start), Op("||"), Time("<", c.end)>>
    ELSE <<Time(Scalar(c.mode), c.start)>>

\* buildTimeConditionExpr
BuildTime(c) ==
    IF ~Usable(c) THEN <<>>
    ELSE IF c.mode = "range"
    THEN <<Time(">=", c.start), Op(IF c.start > c.end THEN "||" ELSE "&&"), Time("<", c.end)>>
    ELSE <<Time(Scalar(c.mode), c.start)>>

\* buildRequestConditionExpr: "contains" and the comparisons test for nil first.
BuildCondition(c) ==
    CASE c.source = "time"  -> BuildTime(c)
      [] c.mode = "blank"   -> <<>>
      [] c.mode = "more"    -> <<Param("exists"), Op("&&"), Param("more")>>
      [] OTHER              -> <<Param(c.mode)>>

\* Mutant: every condition of a group is put in parentheses.
BuildGroup_GuardsAll(g) ==
    LET built == SelectSeq([i \in DOMAIN g.conditions |-> BuildCondition(g.conditions[i])],
                           LAMBDA x : x # <<>>)
    IN IF g.multiplier = NoMultiplier \/ built = <<>> THEN <<>>
       ELSE <<Rule(Joined([i \in DOMAIN built |-> <<Paren(built[i])>>], "&&"), g.multiplier)>>

\* buildRuleGroupFactor
BuildGroup(g) ==
    LET built == SelectSeq([i \in DOMAIN g.conditions |-> BuildCondition(g.conditions[i])],
                           LAMBDA x : x # <<>>)
        Guarded(x) == IF Has(x, "||") THEN <<Paren(x)>> ELSE x
    IN IF g.multiplier = NoMultiplier \/ built = <<>> THEN <<>>
       ELSE <<Rule(IF Len(built) = 1 THEN built[1]
                   ELSE Joined([i \in DOMAIN built |-> Guarded(built[i])], "&&"),
                   g.multiplier)>>

\* buildRequestRuleExpr
BuildRules(cards) ==
    Joined(SelectSeq([i \in DOMAIN cards |-> BuildGroup(cards[i])], LAMBDA x : x # <<>>), "*")

(***************************************************************************)
(* Reading cards: the set of readings of a text, empty when the code       *)
(* returns null.                                                           *)
(***************************************************************************)
IsRange(x) == /\ Len(x) = 3
              /\ x[1].t = "time" /\ x[1].op = ">="
              /\ x[2] \in {Op("&&"), Op("||")}
              /\ x[3].t = "time" /\ x[3].op = "<"

\* Some range of the rules is joined with || although it lies within the day, and
\* so always holds, or with && although it crosses midnight, and so never does.
Misjoined(rules) ==
    \E k \in ToSet(rules) : k.t = "rule" /\
        \E c \in {k.cond} \cup {p.of : p \in {q \in ToSet(k.cond) : q.t = "paren"}} :
        \E i \in 1 .. Len(c) - 2 :
            LET x == SubSeq(c, i, i + 2)
            IN  IsRange(x) /\ (x[2] = Op("||")) # (x[1].value > x[3].value)

Mode(o) == CASE o = "==" -> "eq" [] o = ">=" -> "gte" [] o = "<" -> "lt"

\* tryParseTimeCondition: a range is accepted with either operator, whatever the
\* order of its bounds.
ReadTime(x) ==
    LET y == IF Len(x) = 1 /\ x[1].t = "paren" THEN x[1].of ELSE x
        c == IF IsRange(y) THEN {InRange(y[1].value, y[3].value)}
             ELSE IF Len(x) = 1 /\ x[1].t = "time" THEN {OnTime(Mode(x[1].op), x[1].value)}
             ELSE {}
    IN {r \in c : Usable(r)}

\* tryParseRequestCondition
ReadCondition(x) ==
    ReadTime(x) \cup (IF Len(x) = 1 /\ x[1].t = "param" /\ x[1].test \in {"exists", "eq"}
                      THEN {OnParam(x[1].test)} ELSE {})

\* tryParseTimeRangePair
ReadPair(x, y) ==
    {InRange(a.start, b.start) : a \in {r \in ReadTime(x) : r.mode = "gte"},
                                 b \in {r \in ReadTime(y) : r.mode = "lt"}}

RECURSIVE ReadParts(_)
ReadParts(ps) ==
    IF ps = <<>> THEN {<<>>}
    ELSE IF Len(ps) > 1 /\ ReadPair(ps[1], ps[2]) # {}
    THEN {<<c>> \o rest : c \in ReadPair(ps[1], ps[2]), rest \in ReadParts(SubSeq(ps, 3, Len(ps)))}
    ELSE {<<c>> \o rest : c \in ReadCondition(ps[1]), rest \in ReadParts(Tail(ps))}

\* tryParseRequestConditions
ReadConditions(c) ==
    IF ReadTime(c) # {} THEN {<<r>> : r \in ReadTime(c)} ELSE ReadParts(Split(c, "&&"))

\* tryParseRuleGroupFactor
ReadGroup(part) ==
    IF Len(part) = 1 /\ part[1].t = "rule"
    THEN {[conditions |-> cs, multiplier |-> part[1].multiplier] : cs \in ReadConditions(part[1].cond)}
    ELSE {}

RECURSIVE ReadGroups(_)
ReadGroups(ps) == IF ps = <<>> THEN {<<>>}
                  ELSE {<<g>> \o rest : g \in ReadGroup(Head(ps)), rest \in ReadGroups(Tail(ps))}

\* tryParseRequestRuleExpr
ReadRules(x) == IF x = <<>> THEN {<<>>} ELSE ReadGroups(Split(x, "*"))

(***************************************************************************)
(* parseVisualBillingDocument: tiers under conditions, nothing else.       *)
(***************************************************************************)
RECURSIVE Tiers(_)
Tiers(x) ==
    IF Has(x, "?") THEN Tiers(Before(x, "?")) /\ Tiers(After(x, "?"))
    ELSE LET y == Unwrapped(x) IN
         IF y = x THEN Len(x) = 1 /\ x[1].t = "price" ELSE Tiers(y)

Visual(x) == Compiles(x) /\ Tiers(Body(x))
================================================================================
