-------------------------- MODULE DiagnosisPrompt ---------------------------
(***************************************************************************)
(* DiagnosisPromptContextBuilder: what of a diagnosis's context fits into  *)
(* the prompt.  Each list is ranked and filled up to the budget of its     *)
(* section; then the last items of the lists are dropped until the whole   *)
(* fits, and when the lists are empty the rest is replaced by shorter      *)
(* forms of itself.  The counts the diagnosis keeps of what was shown are  *)
(* corrected along the way.                                                *)
(*                                                                         *)
(* Lengths are small numbers: an item has one, and so has the part of the  *)
(* context that holds no counted items, in each of its forms.              *)
(***************************************************************************)
EXTENDS Naturals, SequencesExt

CONSTANTS
    Trimmed,     \* sequence of the lists _enforce_final_budget cuts
    Untrimmed,   \* sequence of the lists it does not: those of ansflow_events
    Ranked,      \* lists sorted by score
    Raw,         \* sequence of the payloads counted and never shown
    Room,        \* section budget of each list
    MaxChars,    \* budget of the prompt
    Contexts,    \* contexts considered: lists of items with score and length
    Lengths      \* possible lengths of the rest, by form

VARIABLES
    given,       \* the lists of the context
    rest,        \* length of what holds no items, by form
    todo,        \* lists still to be fitted
    form,        \* full, minimal, compacted or identifiers
    shown,       \* positions of the items each list shows
    counts,      \* counts[key]: available and included
    summary      \* what the run saves about its prompt

vars == <<given, rest, todo, form, shown, counts, summary>>

Uncounted == [available |-> 0, included |-> 0]
Forms     == {"full", "minimal", "compacted", "identifiers"}
Unsaved   == [saved |-> FALSE, final |-> 0, truncated |-> FALSE]
Cut   == ToSet(Trimmed)
Lists == Cut \cup ToSet(Untrimmed)
Bare  == ToSet(Raw)

Init ==
    /\ given \in Contexts /\ rest \in Lengths
    /\ todo = Trimmed \o Untrimmed \o Raw
    /\ form = "full" /\ shown = [l \in Lists |-> <<>>]
    /\ counts = [l \in Lists \cup Bare |-> Uncounted] /\ summary = Unsaved

-----------------------------------------------------------------------------
\* The sum of a sequence.
Total(q) ==
    LET upto[n \in 0..Len(q)] == IF n = 0 THEN 0 ELSE upto[n - 1] + q[n]
    IN  upto[Len(q)]

\* sorted(..., reverse=True) keeps the order of equal scores: the n-th item has
\* n - 1 before it.
Before(l, items, i, j) ==
    \/ l \in Ranked /\ items[i].score > items[j].score
    \/ i < j /\ (l \notin Ranked \/ items[i].score = items[j].score)
Ahead(l, items, j) == {i \in DOMAIN items : Before(l, items, i, j)}
Order(l, items) ==
    [n \in DOMAIN items |->
       CHOOSE j \in DOMAIN items : Cardinality(Ahead(l, items, j)) = n - 1]

Length(items, s) == Total([k \in DOMAIN s |-> items[s[k]].length])
\* _fit_items: an item that does not fit is passed over, later ones may fit.
Filled(l, items) ==
    LET kept[n \in 0..Len(items)] ==
          IF n = 0 THEN <<>>
          ELSE LET more == Append(kept[n - 1], Order(l, items)[n])
               IN  IF Length(items, more) <= Room[l] THEN more ELSE kept[n - 1]
    IN  kept
Fitted(l, items) == Filled(l, items)[Len(items)]

Record(l, n) == counts' = [counts EXCEPT ![l] =
                             [available |-> Len(given[l]), included |-> n]]
BuildSection ==
    /\ todo # <<>> /\ todo' = Tail(todo)
    /\ LET l == Head(todo) IN
         IF l \in Bare THEN Record(l, 0) /\ UNCHANGED shown
         ELSE /\ shown' = [shown EXCEPT ![l] = Fitted(l, given[l])]
              /\ Record(l, Len(Fitted(l, given[l])))
    /\ UNCHANGED <<given, rest, form, summary>>

-----------------------------------------------------------------------------
Placed == Trimmed \o Untrimmed
Held == Total([k \in DOMAIN Placed |->
                 Length(given[Placed[k]], shown[Placed[k]])])
Size == rest[form] + Held
TooLong == todo = <<>> /\ ~summary.saved /\ Size > MaxChars

\* The list whose last item is longest; the first of several.
LastLength(l) == given[l][Last(shown[l])].length
Populated == {k \in DOMAIN Trimmed : shown[Trimmed[k]] # <<>>}
Longest ==
    CHOOSE k \in Populated : \A j \in Populated :
        \/ LastLength(Trimmed[k]) > LastLength(Trimmed[j])
        \/ LastLength(Trimmed[k]) = LastLength(Trimmed[j]) /\ k <= j

Less(n) == IF n = 0 THEN 0 ELSE n - 1
\* Variant: the item is dropped and still counted.
DropUncounted ==
    /\ TooLong /\ form = "full" /\ Populated # {}
    /\ LET l == Trimmed[Longest] IN shown' = [shown EXCEPT ![l] = Front(@)]
    /\ UNCHANGED <<given, rest, todo, form, counts, summary>>
Drop ==
    /\ TooLong /\ form = "full" /\ Populated # {}
    /\ LET l == Trimmed[Longest] IN
         /\ shown' = [shown EXCEPT ![l] = Front(@)]
         /\ counts' = [counts EXCEPT ![l].included = Less(@)]
    /\ UNCHANGED <<given, rest, todo, form, summary>>

\* The core metadata and the first five of the evidence, which is empty by
\* now; the lists that are never cut go with the rest.
Reduce ==
    /\ TooLong /\ form = "full" /\ Populated = {}
    /\ form' = "minimal" /\ shown' = [l \in Lists |-> <<>>]
    /\ counts' = [l \in DOMAIN counts |-> [counts[l] EXCEPT !.included = 0]]
    /\ UNCHANGED <<given, rest, todo, summary>>
Shorten ==
    /\ TooLong /\ form \in {"minimal", "compacted"}
    /\ form' = IF form = "minimal" THEN "compacted" ELSE "identifiers"
    /\ UNCHANGED <<given, rest, todo, shown, counts, summary>>

Summarise ==
    /\ todo = <<>> /\ ~summary.saved
    /\ Size <= MaxChars \/ form = "identifiers"
    /\ summary' = [saved |-> TRUE, final |-> Size,
                   truncated |-> \E l \in DOMAIN counts :
                                   counts[l].available > counts[l].included]
    /\ UNCHANGED <<given, rest, todo, form, shown, counts>>

Next == BuildSection \/ Drop \/ Reduce \/ Shorten \/ Summarise

Spec == Init /\ [][Next]_vars

-----------------------------------------------------------------------------
\* Types.
PromptTypeOK ==
    /\ given \in Contexts /\ rest \in Lengths
    /\ form \in Forms
    /\ \A l \in Lists : ToSet(shown[l]) \subseteq DOMAIN given[l]
    /\ counts \in [Lists \cup Bare -> [available : Nat, included : Nat]]

\* The prompt is no longer than its budget while its identifiers are not, and
\* what the diagnosis saves about it is true after all cuts: the counts are
\* those of the items shown, and the prompt is said to be truncated exactly
\* when an item of a counted list is missing.  Nothing counts what is cut of
\* the rest: the ends of texts and of uncounted lists (the timeline after 80
\* entries, related alerts after 10), or all that Reduce leaves out.
Honest ==
    summary.saved =>
      /\ summary.final <= MaxChars \/ rest["identifiers"] > MaxChars
      /\ \A l \in Lists : counts[l].included = Len(shown[l])
      /\ summary.truncated <=> \/ \E l \in Lists : Len(shown[l]) < Len(given[l])
                               \/ \E l \in Bare : given[l] # <<>>

\* In a ranked list an item gives way only to items that rank above it or to
\* the budget: one that is missing while an item below it is shown stands
\* between those above and those below, and with the ones above it was too
\* long for its section.
Between(l, i, m) ==
    /\ \A k \in 1..m : Before(l, given[l], shown[l][k], i)
    /\ \A k \in m + 1..Len(shown[l]) : Before(l, given[l], i, shown[l][k])
RankKept ==
    \A l \in Lists \cap Ranked : \A i \in DOMAIN given[l] \ ToSet(shown[l]) :
        (\E j \in ToSet(shown[l]) : Before(l, given[l], i, j)) =>
           \E m \in 0..Len(shown[l]) :
              /\ Between(l, i, m)
              /\ Length(given[l], Append(SubSeq(shown[l], 1, m), i)) > Room[l]
PromptSound == Honest /\ RankKept
=============================================================================
