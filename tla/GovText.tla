------------------------------ MODULE GovText ------------------------------
(***************************************************************************)
(* What the action reads off a text without asking anybody: whether an     *)
(* issue follows a template, how many of its sections are filled in, and   *)
(* whether it is complete enough to stand as a canonical issue.            *)
(*                                                                         *)
(* A body is a sequence of lines.  A line is "h3" or "h2" (a heading of    *)
(* that depth, which two or one of the patterns match), "none" (a line     *)
(* such as None or 无), "blank" or "text".  Every pattern of a heading     *)
(* counts as an indicator; a title prefix such as [BUG] counts as two, and *)
(* fields are the well-known field names found, when there are two of them *)
(* or more.                                                                *)
(***************************************************************************)
EXTENDS Integers, FiniteSets, Sequences, FiniteSetsExt

CONSTANT
    MinSections   \* sections to be filled in before an issue counts as complete

ASSUME GovTextAssumption == MinSections \in Nat

Lines == {"h3", "h2", "none", "blank", "text"}
Larger(a, b) == IF a < b THEN b ELSE a
Smaller(a, b) == IF a < b THEN a ELSE b

IsHeader(l) == l \in {"h3", "h2"}
Where(lines, K) == {i \in DOMAIN lines : lines[i] \in K}

Indicators(t) ==
    (IF t.prefix THEN 2 ELSE 0)
    + 2 * Cardinality(Where(t.lines, {"h3"})) + Cardinality(Where(t.lines, {"h2"}))
    + (IF t.fields >= 2 THEN t.fields ELSE 0)

(***************************************************************************)
(* detectTemplate: the indicators over the number expected of a body of    *)
(* that length, capped, and scaled down for a body of less than ten lines, *)
(* exceed one quarter.  Both comparisons are brought to whole numbers.     *)
(***************************************************************************)
HasTemplate(t) ==
    LET T == Len(t.lines)
        expected3 == Larger(Larger(T, 3), 6)
        length10 == Smaller(T, 10)
    IN /\ 12 * Indicators(t) * length10 > 10 * expected3
       /\ 6 * length10 > 10

(***************************************************************************)
(* extractUserContent: a section runs from a heading to the next one; what *)
(* comes before the first heading is in none.  isEmptyContent looks at the *)
(* whole section, so two lines that say None are content.                  *)
(***************************************************************************)
Section(lines, i) ==
    LET after == {j \in DOMAIN lines : j > i /\ IsHeader(lines[j])}
        end == IF after = {} THEN Len(lines) + 1 ELSE Min(after)
    IN {j \in DOMAIN lines : i < j /\ j < end}

IsEmptyContent(lines, S) ==
    /\ \A j \in S : lines[j] # "text"
    /\ Cardinality({j \in S : lines[j] = "none"}) <= 1

ValidSections(t) ==
    IF ~HasTemplate(t) THEN {}
    ELSE {i \in DOMAIN t.lines : /\ IsHeader(t.lines[i])
                                 /\ ~IsEmptyContent(t.lines, Section(t.lines, i))}

(* meetsDeterministicThreshold *)
MeetsThreshold(t) ==
    /\ t.longTitle /\ t.longBody
    /\ HasTemplate(t)
    /\ Cardinality(ValidSections(t)) >= MinSections

(* isValidCommitTitle: type, optional scope, colon, description. *)
ValidTitle(t) == t.conventional
=============================================================================
