-------------------------- MODULE ContextBuilder --------------------------
(***************************************************************************)
(* How the messages of one model request are put together from labelled    *)
(* sections under a token budget (context/builder.py), as the agent uses   *)
(* it (agents/agent.py, _build_context).  A message is a record with its   *)
(* role and its tokens; what a summary says of the messages it stands for  *)
(* is left out, its size is the budget it is given but no less than        *)
(* SummaryFloor (context/summarizer.py: a header is always there).         *)
(*                                                                         *)
(* An operator marked "Mutant" is the form a likely bug would give to the  *)
(* definition that follows it; nothing uses it.                            *)
(***************************************************************************)
EXTENDS Integers, SequencesExt

CONSTANT SummaryFloor    \* tokens of the shortest summary

ASSUME SummaryAssumption == SummaryFloor \in Nat \ {0}

Tokens(messages) ==
    LET sum[n \in 0 .. Len(messages)] == IF n = 0 THEN 0 ELSE sum[n - 1] + messages[n].tokens
    IN sum[Len(messages)]

TotalTokens(sections) ==
    LET sum[n \in 0 .. Len(sections)] == IF n = 0 THEN 0 ELSE sum[n - 1] + Tokens(sections[n].messages)
    IN sum[Len(sections)]

SystemMessage(content, tokens) ==
    [role |-> "system", content |-> content, tokens |-> tokens, calls |-> <<>>, answers |-> <<>>]

\* int(cap * 0.3), and _SIGNAL's pick of what fits.
SummaryTokens(cap) == Max({SummaryFloor, (3 * cap) \div 10})

-----------------------------------------------------------------------------
(* the sections of an agent's request *)

Section(name, messages, priority, order, relevance) ==
    [name |-> name, messages |-> messages, priority |-> priority, order |-> order,
     relevance |-> relevance]

\* _build_context: nothing is added for an empty text or without memories.
AgentSections(instructions, state, memory, conversation) ==
    SelectSeq(
        <<Section("instructions", instructions, 0, 0, 10),
          Section("workflow_state", state, 40, 10, 10),
          Section("memory", memory, 70, 20, 6),
          Section("conversation", conversation, 10, 90, 10)>>,
        LAMBDA s : s.messages # <<>>)

\* limit_for: a section the budget has no entry for may take all of it.
LimitFor(budget, name) == IF name \in DOMAIN budget THEN budget[name] ELSE budget.max_tokens

-----------------------------------------------------------------------------
(* shrinking *)

Newest(messages, n) == SubSeq(messages, Len(messages) - n + 1, Len(messages))

\* The newest messages that take at most 0.7 of the cap.
RecentRun(messages, cap) ==
    Newest(messages,
           Max({n \in 0 .. Len(messages) : 10 * Tokens(Newest(messages, n)) <= 7 * cap}))

\* The newest messages that fit, passing over those that do not.
RecentThatFit(messages, cap) ==
    FoldRight(LAMBDA m, kept : IF Tokens(kept) + m.tokens > cap THEN kept ELSE <<m>> \o kept,
              messages, <<>>)

\* Mutant: messages that do not fit are passed over here as well.
SummarisedWithGaps(messages, cap) ==
    LET kept == RecentThatFit(messages, (7 * cap) \div 10)
    IN IF Len(kept) = Len(messages) THEN kept
       ELSE <<SystemMessage(<<"summary">>, SummaryTokens(cap))>> \o kept

Summarised(messages, cap) ==
    LET kept == RecentRun(messages, cap)
    IN IF Len(kept) = Len(messages) THEN kept
       ELSE <<SystemMessage(<<"summary">>, SummaryTokens(cap))>> \o kept

Shrink(section, cap, summarise) ==
    IF cap <= 0 THEN <<>>
    ELSE IF section.name = "conversation" /\ summarise THEN Summarised(section.messages, cap)
    ELSE RecentThatFit(section.messages, cap)

-----------------------------------------------------------------------------
(* build *)

Relevant(sections, minimum) ==
    SelectSeq(sections, LAMBDA s : s.relevance >= minimum \/ s.priority <= 10)

Capped(sections, budget, summarise) ==
    [i \in DOMAIN sections |->
        LET cap == LimitFor(budget, sections[i].name)
        IN IF Tokens(sections[i].messages) > cap
           THEN [sections[i] EXCEPT !.messages = Shrink(sections[i], cap, summarise)]
           ELSE sections[i]]

Victim(sections) ==
    CHOOSE i \in DOMAIN sections : \A j \in DOMAIN sections : sections[j].priority <= sections[i].priority

Overall(budget) == budget.max_tokens - budget.reserve_output

\* The loop goes on while there is too much, but not when its victim has nothing
\* left to give (a section its own cap has emptied) or must be kept.
MustShrink(sections, budget) ==
    /\ sections # <<>> /\ TotalTokens(sections) > Overall(budget)
    /\ LET victim == sections[Victim(sections)]
       IN victim.messages # <<>> /\ victim.priority # 0

\* One round: the victim gives what there is too much of.
Target(sections, budget) ==
    Max({0, Tokens(sections[Victim(sections)].messages) - (TotalTokens(sections) - Overall(budget))})

Reduced(sections, left) ==
    IF Tokens(left) = 0 THEN RemoveAt(sections, Victim(sections))
    ELSE [sections EXCEPT ![Victim(sections)].messages = left]

InOrder(sections) == SortSeq(sections, LAMBDA s, t : s.order < t.order)

Prompt(sections) == FlattenSeq([i \in DOMAIN sections |-> InOrder(sections)[i].messages])
=============================================================================
