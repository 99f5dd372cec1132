----------------------------- MODULE ContextWindow -----------------------------
(***************************************************************************)
(* The model context and what compaction makes of it (runtime/context.py   *)
(* and runtime/policies/compaction.py): pure functions on sequences of     *)
(* context items.  An item's text is its number of tokens; the id is the   *)
(* position of the message it was built from.                              *)
(***************************************************************************)
EXTENDS Naturals, Sequences, FiniteSets, FiniteSetsExt, SequencesExt, Selection

CONSTANTS Trigger,          \* ContextBudget.compact_trigger_tokens
          Target,           \* the target_tokens handed to the policy
          MinRecentUnits    \* the policies' min_recent_units

ASSUME WindowAssumption ==
    Trigger \in Nat /\ Target \in Nat \ {0} /\ MinRecentUnits \in Nat

ContextItemType ==
    {"system", "task", "summary", "assistant", "verification",
     "tool_call", "tool_result"}

(* call is the tool_call_id: the id of the call's own message, 0 for none. *)
ContextItem == [id : Nat, type : ContextItemType, call : Nat, tokens : Nat]

Item(id, type, call, tokens) ==
    [id |-> id, type |-> type, call |-> call, tokens |-> tokens]

(* The two items every context begins with.                                *)
Mandatory == <<Item(0, "system", 0, 1), Item(0, "task", 0, 1)>>

Tokens(items) ==
    LET sum[n \in 0..Len(items)] ==
            IF n = 0 THEN 0 ELSE sum[n - 1] + items[n].tokens
    IN  sum[Len(items)]

ShouldCompact(items) == Tokens(items) >= Trigger

------------------------------------------------------------------------------
(* A variant of next_index: only one call and one result are grouped.      *)
NextAfterFirstResult(items, index) ==
    IF items[index].type = "tool_call" /\ index < Len(items) THEN index + 2 ELSE index + 1

(* The first position from index on that is not in P.                      *)
Skip(items, P, index) ==
    CHOOSE k \in index..(Len(items) + 1) : index..(k - 1) \subseteq P /\ k \notin P

(* Where the context unit that begins at index is over: a batch of tool    *)
(* calls and the results after it that belong to one of them, or an item.  *)
next_index(items, index) ==
    LET calls == {j \in DOMAIN items : items[j].type = "tool_call"}
        batch_end == Skip(items, calls, index)
        call_ids == {items[j].call : j \in index..(batch_end - 1)}
        results == {j \in DOMAIN items :
                       items[j].type = "tool_result" /\ items[j].call \in call_ids}
    IN  IF index \in calls THEN Skip(items, results, batch_end) ELSE index + 1

(* The index after each round of the loop.                                 *)
Indices(items) ==
    LET index[round \in 0..Len(items)] ==
            IF round = 0 THEN 1
            ELSE LET i == index[round - 1]
                 IN  IF i > Len(items) THEN i ELSE next_index(items, i)
    IN  index

group_context_units(items) ==
    LET index == Indices(items)
        rounds == {k \in 1..Len(items) : index[k - 1] <= Len(items)}
    IN  [k \in rounds |-> SubSeq(items, index[k - 1], index[k] - 1)]

IsMandatory(item) == item.type \in {"system", "task"}

MandatoryItems(items) ==
    Selected(items, {i \in DOMAIN items : IsMandatory(items[i])})

History(items) ==
    Selected(items, {i \in DOMAIN items : ~IsMandatory(items[i])})

LastUnits(units, k) == SubSeq(units, Len(units) - k + 1, Len(units))

RecentCount(units) == Min({MinRecentUnits, Len(units)})

(* A variant of SlidingWindow: the unit that no longer fits is kept, too.  *)
SlidingWindowOverfull(items) ==
    LET units == group_context_units(History(items))
        kept(k) == MandatoryItems(items) \o FlattenSeq(LastUnits(units, k))
        count == Max({k \in RecentCount(units)..Len(units) :
                        \A j \in (RecentCount(units) + 1)..k :
                            Tokens(kept(j - 1)) <= Target})
    IN  kept(count)

(* Another: the older units are not considered.                            *)
SlidingWindowRecent(items) ==
    LET units == group_context_units(History(items))
    IN  MandatoryItems(items) \o FlattenSeq(LastUnits(units, RecentCount(units)))

(* SlidingWindowCompaction.compact: the mandatory items, the most recent   *)
(* units, and older ones from new to old as long as they fit.              *)
SlidingWindow(items) ==
    LET units == group_context_units(History(items))
        kept(k) == MandatoryItems(items) \o FlattenSeq(LastUnits(units, k))
        count == Max({k \in RecentCount(units)..Len(units) :
                        \A j \in (RecentCount(units) + 1)..k :
                            Tokens(kept(j)) <= Target})
    IN  kept(count)

(* FullSummaryCompaction.compact up to the call of the summarizer.         *)
RecentItems(items) ==
    LET units == group_context_units(History(items))
    IN  FlattenSeq(LastUnits(units, RecentCount(units)))

SummaryBudget(items) ==
    LET needed == Tokens(MandatoryItems(items)) + Tokens(RecentItems(items))
    IN  IF needed < Target THEN Target - needed ELSE 0

NeedsSummary(items) ==
    /\ Tokens(items) > Target
    /\ Len(RecentItems(items)) < Len(History(items))
    /\ SummaryBudget(items) > 0

(* A variant of WithSummary: the summary displaces the recent items.       *)
WithSummaryOnly(items, tokens) ==
    MandatoryItems(items) \o <<Item(0, "summary", 0, tokens)>>

(* ... and what it returns when the summary has at most that many tokens.  *)
WithSummary(items, tokens) ==
    MandatoryItems(items) \o <<Item(0, "summary", 0, tokens)>> \o RecentItems(items)

(* Without a summary to make, or after a bad one, the fallback.            *)
WithoutSummary(items) ==
    IF Tokens(items) <= Target THEN items ELSE SlidingWindow(items)

------------------------------------------------------------------------------
(* What the model must be able to make sense of.                           *)

(* Every tool result comes after its call, every call before its result.   *)
WholeInteractions(items) ==
    /\ \A i \in DOMAIN items : items[i].type = "tool_result" =>
           \E j \in 1..(i - 1) :
               items[j].type = "tool_call" /\ items[j].call = items[i].call
    /\ \A i \in DOMAIN items : items[i].type = "tool_call" =>
           \E j \in (i + 1)..Len(items) :
               items[j].type = "tool_result" /\ items[j].call = items[i].call

(* The view is the mandatory items, perhaps a summary, and a suffix of the *)
(* messages that has at least the units that are to be kept.               *)
IsView(view, messages) ==
    \E k \in 1..(Len(messages) + 1) :
        LET recent == SubSeq(messages, k, Len(messages))
        IN  /\ \/ view = Mandatory \o recent
               \/ \E tokens \in 1..Target :
                      view = Mandatory \o <<Item(0, "summary", 0, tokens)>> \o recent
            /\ Len(group_context_units(recent)) >=
                   RecentCount(group_context_units(messages))
==============================================================================
