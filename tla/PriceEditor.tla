------------------------------ MODULE PriceEditor ------------------------------
(***************************************************************************)
(* The price editor of a model: the sheet that loads and saves the stored  *)
(* expression (model-pricing-snapshots.ts, model-pricing-sheet.tsx,        *)
(* pricing.ts) and the visual and textual editors in it                    *)
(* (tiered-pricing-editor.tsx).  The editor and the sheet set the base     *)
(* price and the rules in the same handlers, so one copy stands for both.  *)
(***************************************************************************)
EXTENDS PriceExpression

CONSTANTS
    Texts,          \* expressions that may be stored, or typed
    Bases,          \* base prices that the visual editor may be given
    Conditions,     \* conditions that may be entered on a card
    Multipliers,    \* multipliers that may be entered on a card
    Presets,        \* records [expr, groups]
    MaxGroups,      \* bound on the cards
    MaxConditions,  \* bound on the conditions of a card
    MaxEdits        \* bound on the edits of a behaviour

ASSUME EditorAssumption ==
    /\ \A x \in Texts : Compiles(x)
    /\ \A b \in Bases : Visual(b) /\ ~Versioned(b)
    /\ \A c \in Conditions : Usable(c)
    /\ Multipliers \subseteq Nat \ {NoMultiplier}

VARIABLES
    stored,     \* the expression on the server
    mode,       \* "closed", "visual" or "raw"
    base,       \* billingExpr, baseExpr
    rules,      \* requestRuleExpr, ruleExpr
    raw,        \* rawExpr, the text of the expression editor
    cards,      \* requestRuleGroups
    valid,      \* the visual document can be serialized
    edited,     \* the price was edited since it was loaded or saved
    edits       \* edits so far

vars == <<stored, mode, base, rules, raw, cards, valid, edited, edits>>

Init ==
    /\ stored \in Texts
    /\ mode = "closed"
    /\ base = <<>> /\ rules = <<>> /\ raw = <<>> /\ cards = <<>>
    /\ valid = TRUE
    /\ edited = FALSE
    /\ edits = 0

\* An edit of the base price or of the rules.
Edit ==
    /\ edits < MaxEdits
    /\ edits' = edits + 1
    /\ edited' = TRUE

CardsOf(r) == IF ReadRules(r) = {} THEN <<>> ELSE CHOOSE c \in ReadRules(r) : TRUE

ModeFor(b) == IF Visual(b) THEN "visual" ELSE "raw"

\* buildModelSnapshots: what the sheet is given of the stored expression.
Loaded == SplitRules(stored)

\* pricingFromDraft: what the sheet would send to the server.
Submitted == Combine(base, rules)

\* The sheet is opened, or opened again without saving.
Open ==
    /\ base' = Loaded.base
    /\ rules' = Loaded.rules
    /\ mode' = ModeFor(Loaded.base)
    /\ raw' = Combine(Loaded.base, Loaded.rules)
    /\ cards' = CardsOf(Loaded.rules)
    /\ valid' = TRUE
    /\ edited' = FALSE
    /\ UNCHANGED <<stored, edits>>

InvalidDraft == mode = "visual" /\ ~valid

\* canUseVisualRules
CardsShown == mode = "visual" /\ ReadRules(rules) # {}

\* handleRawChange
EditRaw(x) ==
    LET s == SplitRules(x) IN
    /\ mode = "raw"
    /\ raw' = x
    /\ base' = s.base
    /\ rules' = s.rules
    /\ Edit
    /\ UNCHANGED <<stored, mode, cards, valid>>

\* handleModeChange to the expression editor
ShowRaw ==
    /\ mode = "visual" /\ valid
    /\ mode' = "raw"
    /\ raw' = Combine(base, rules)
    /\ UNCHANGED <<stored, base, rules, cards, valid, edited, edits>>

\* handleModeChange to the visual editor, refused when the base cannot be shown
ShowVisual ==
    /\ mode = "raw" /\ Visual(base)
    /\ mode' = "visual"
    /\ cards' = CardsOf(rules)
    /\ valid' = TRUE
    /\ UNCHANGED <<stored, base, rules, raw, edited, edits>>

\* handleDocumentChange with a document that serializes; a prefix is kept.
EditBase(b) ==
    /\ mode = "visual"
    /\ base' = (IF Versioned(base) THEN <<Version>> ELSE <<>>) \o b
    /\ valid' = TRUE
    /\ Edit
    /\ UNCHANGED <<stored, mode, rules, raw, cards>>

\* handleDocumentChange with an invalid draft: the last valid price is kept.
BreakDraft ==
    /\ mode = "visual" /\ valid
    /\ valid' = FALSE
    /\ UNCHANGED <<stored, mode, base, rules, raw, cards, edited, edits>>

\* handleRuleGroupsChange
ChangeCards(next) ==
    /\ CardsShown
    /\ cards' = next
    /\ rules' = BuildRules(next)
    /\ Edit
    /\ UNCHANGED <<stored, mode, base, raw, valid>>

AddGroup == Len(cards) < MaxGroups /\ ChangeCards(Append(cards, EmptyGroup))

RemoveGroup == \E i \in DOMAIN cards : ChangeCards(RemoveAt(cards, i))

SetMultiplier == \E i \in DOMAIN cards, m \in Multipliers :
    ChangeCards([cards EXCEPT ![i].multiplier = m])

AddCondition == \E i \in DOMAIN cards, c \in {EmptyCondition, EmptyTimeCondition} :
    /\ Len(cards[i].conditions) < MaxConditions
    /\ ChangeCards([cards EXCEPT ![i].conditions = Append(@, c)])

SetCondition == \E i \in DOMAIN cards, c \in Conditions :
    \E j \in DOMAIN cards[i].conditions :
        ChangeCards([cards EXCEPT ![i].conditions[j] = c])

RemoveCondition == \E i \in DOMAIN cards :
    \E j \in DOMAIN cards[i].conditions :
        ChangeCards([cards EXCEPT ![i].conditions = RemoveAt(@, j)])

\* applyPreset
ApplyPreset(p) ==
    /\ mode # "closed"
    /\ base' = p.expr
    /\ rules' = BuildRules(p.groups)
    /\ raw' = Combine(p.expr, BuildRules(p.groups))
    /\ cards' = p.groups
    /\ mode' = ModeFor(p.expr)
    /\ valid' = TRUE
    /\ Edit
    /\ UNCHANGED stored

\* commitDraft and the server's check of the expression
Save ==
    /\ mode # "closed" /\ ~InvalidDraft
    /\ Compiles(Submitted)
    /\ stored' = Submitted
    /\ edited' = FALSE
    /\ UNCHANGED <<mode, base, rules, raw, cards, valid, edits>>

Next ==
    \/ Open
    \/ \E x \in Texts : EditRaw(x)
    \/ ShowRaw
    \/ ShowVisual
    \/ \E b \in Bases : EditBase(b)
    \/ BreakDraft
    \/ AddGroup
    \/ RemoveGroup
    \/ SetMultiplier
    \/ AddCondition
    \/ SetCondition
    \/ RemoveCondition
    \/ \E p \in Presets : ApplyPreset(p)
    \/ Save

Spec == Init /\ [][Next]_vars

--------------------------------------------------------------------------------
\* A price that nobody edited, whatever modes it was looked at in, still charges
\* what the stored expression charges in every circumstance: splitting it into
\* base and rules and combining them again loses nothing
\* (splitBillingExprAndRequestRules, combineBillingExpr).
UneditedKept ==
    mode # "closed" /\ ~edited => Charge(Submitted) = Charge(stored)

\* The base price times every card whose conditions hold.
CardsCharge ==
    Charge(Submitted) = [e \in Circumstances |-> Amount(Body(base), e) * CardsFactor(cards, e)]

\* The cards were read from a text, typed, stored long ago or put together from
\* two conditions, that joins the two bounds of a range in the wrong way.
CardsMisread == rules # BuildRules(cards) /\ Misjoined(rules)

\* What would be saved charges what the screen shows: the typed text in the
\* expression editor; in the visual editor the base price times every card whose
\* conditions hold, as the labels of the cards explain them, once all fields are
\* filled in (handleRawChange, handleRuleGroupsChange, tryParseRequestRuleExpr).
\* Excepted are cards that show a misjoined range of a text until one of them is
\* edited, which writes the range again as it is shown.
SavedAsShown ==
    /\ mode = "raw" => Charge(Submitted) = Charge(raw)
    /\ CardsShown /\ valid /\ Complete(cards) /\ ~CardsMisread => CardsCharge

\* The same with no exception: what the labels of the cards promise.
CardsAsExplained ==
    CardsShown /\ valid /\ Complete(cards) => CardsCharge

\* The cards do not lock their user out: rules written by the cards can be read
\* back into cards, unless a condition tests for nil first ("contains" or a
\* comparison of a parameter), which tryParseRequestConditions never recognizes.
CardsStayOpen ==
    /\ mode = "visual" /\ rules = BuildRules(cards)
    /\ \A g \in ToSet(cards) : OnParam("more") \notin ToSet(g.conditions)
    => ReadRules(rules) # {}
================================================================================
