----------------------------- MODULE TurnLoops -----------------------------
(***************************************************************************)
(* The loops of services/memory/conversation.py and of the batch selection *)
(* in services/memory/summarizer.py, as folds over the sequence of         *)
(* messages.  A behaviour appends messages one at a time, so that every    *)
(* conversation up to MaxLength is a state, and the invariants compare     *)
(* what the loops return with the set definitions of module Turns.         *)
(*                                                                         *)
(* A text is its length.  Truncating to a limit yields min(length, limit); *)
(* the JSON handed to the model costs Envelope plus Wrapping per message.  *)
(***************************************************************************)
EXTENDS Turns, Sequences, SequencesExt

CONSTANTS
    Sizes,           \* lengths a message can have
    SummarySizes,    \* lengths a stored summary can have
    MaxLength,       \* bound on the length of the conversation
    Envelope,        \* characters of the JSON around the previous summary
    Wrapping,        \* characters of the JSON around one message
    MarkerSize       \* length of _SUMMARY_TRUNCATION_MARKER

ASSUME LoopsAssumption ==
    /\ Sizes \subseteq Nat /\ SummarySizes \subseteq Nat
    /\ {MaxLength, Envelope, Wrapping, MarkerSize} \subseteq Nat

VARIABLES
    messages,   \* the conversation, each message with its position as id
    previous    \* length of the stored summary

vars == <<messages, previous>>

Init == messages = <<>> /\ previous \in SummarySizes

Receive ==
    /\ Len(messages) < MaxLength
    /\ \E role \in {"user", "assistant"}, size \in Sizes :
          messages' = Append(messages,
                             [id |-> Len(messages) + 1, role |-> role, size |-> size])
    /\ UNCHANGED previous

Spec == Init /\ [][Receive]_vars

IdsOf(ms) == {ms[i].id : i \in DOMAIN ms}

-----------------------------------------------------------------------------
(* conversation.py *)

\* An assistant message closes the pending segment; without one it is dropped.
AddToTurns(acc, m) ==
    IF m.role = "user" THEN [acc EXCEPT !.pending = Append(@, m)]
    ELSE IF acc.pending = <<>> THEN acc
    ELSE [turns |-> Append(acc.turns, Append(acc.pending, m)), pending |-> <<>>]

GroupTurns(ms) == FoldLeft(AddToTurns, [turns |-> <<>>, pending |-> <<>>], ms)

SizesOf(ms) == FoldLeft(LAMBDA n, m : n + m.size, 0, ms)

JoinedSize(ms) ==
    SizesOf(ms) + SeparatorSize * (IF ms = <<>> THEN 0 ELSE Len(ms) - 1)

\* One pass of the loop over the turns, newest first; stopped stands for break.
KeepTurn_SkipMisfit(acc, turn) ==
    IF acc.count >= RecentTurnLimit \/ JoinedSize(turn \o acc.selected) > CharacterBudget
    THEN acc
    ELSE [acc EXCEPT !.selected = turn \o @, !.count = @ + 1]

KeepTurn(acc, turn) ==
    IF acc.stopped \/ acc.count >= RecentTurnLimit
          \/ JoinedSize(turn \o acc.selected) > CharacterBudget
    THEN [acc EXCEPT !.stopped = TRUE]
    ELSE [acc EXCEPT !.selected = turn \o @, !.count = @ + 1]

KeepTurns(grouped) ==
    FoldLeft(KeepTurn, [selected |-> grouped.pending, count |-> 0, stopped |-> FALSE],
             Reverse(grouped.turns))

AssembleContext(ms, summary) ==
    LET grouped == GroupTurns(ms)
        kept == KeepTurns(grouped)
        older == SubSeq(grouped.turns, 1, Len(grouped.turns) - kept.count)
        separator == IF kept.selected = <<>> THEN 0 ELSE SeparatorSize
    IN  [messages |-> kept.selected,
         candidates |-> FlattenSeq(older),
         summary |-> IF summary + separator + JoinedSize(kept.selected) <= CharacterBudget
                     THEN summary ELSE 0]

-----------------------------------------------------------------------------
(* summarizer.py *)

SerializedSize(summary, ms) ==
    Envelope + summary + SizesOf(ms) + Wrapping * Len(ms)

Truncated(size, limit) == IF size <= limit THEN size ELSE limit

Clipped(ms, limit) == [i \in DOMAIN ms |-> [ms[i] EXCEPT !.size = Truncated(@, limit)]]

\* The binary search of both clipping loops: the last probe that fits, else default.
\* A pass shrinks low..high, so that as many passes as it has numbers empty it.
Halve_GoLower(acc, fitting) ==
    LET midpoint == (acc.low + acc.high) \div 2 IN
    IF acc.low > acc.high THEN acc
    ELSE IF midpoint \in fitting
         THEN [acc EXCEPT !.high = midpoint - 1, !.best = midpoint]
         ELSE [acc EXCEPT !.high = midpoint - 1]

Halve(acc, fitting) ==
    LET midpoint == (acc.low + acc.high) \div 2 IN
    IF acc.low > acc.high THEN acc
    ELSE IF midpoint \in fitting
         THEN [acc EXCEPT !.low = midpoint + 1, !.best = midpoint]
         ELSE [acc EXCEPT !.high = midpoint - 1]

SearchLimit(low, high, fitting, default) ==
    FoldLeft(LAMBDA acc, pass : Halve(acc, fitting),
             [low |-> low, high |-> high, best |-> default],
             [pass \in 1..(high - low + 1) |-> pass]).best

FitPreviousSummary(summary, ms) ==
    IF SerializedSize(summary, ms) <= CharacterBudget THEN summary
    ELSE SearchLimit(0, IF summary = 0 THEN 0 ELSE summary - 1,
                     {n \in 0..summary :
                         SerializedSize(Truncated(summary, n), ms) <= CharacterBudget}, 0)

\* One oversized turn: clip every message alike, at least to the marker; when not even
\* that fits, a single marker stands for the turn.
ClipFirstTurn(summary, turn) ==
    LET minimum == Clipped(turn, MarkerSize)
        bounded == FitPreviousSummary(summary, minimum)
        marker == <<[turn[1] EXCEPT !.role = "user", !.size = MarkerSize]>>
        longest == Max({turn[i].size : i \in DOMAIN turn})
        limit == SearchLimit(MarkerSize, longest,
                    {n \in MarkerSize..longest :
                        SerializedSize(bounded, Clipped(turn, n)) <= CharacterBudget},
                    MarkerSize)
    IN  IF SerializedSize(bounded, minimum) > CharacterBudget
        THEN [previous |-> FitPreviousSummary(summary, marker), input |-> marker]
        ELSE [previous |-> bounded, input |-> Clipped(turn, limit)]

TakeTurn(acc, turn) ==
    IF acc.stopped \/ SerializedSize(acc.previous, acc.selected \o turn) > CharacterBudget
    THEN [acc EXCEPT !.stopped = TRUE]
    ELSE [acc EXCEPT !.selected = @ \o turn]

\* The batch of a refresh: what the model is given, and the message the cursor names.
SelectBatch(summary, candidates) ==
    LET turns == GroupTurns(candidates).turns
        taken == FoldLeft(TakeTurn,
                    [previous |-> summary, selected |-> <<>>, stopped |-> FALSE], turns)
        clip == ClipFirstTurn(summary, turns[1])
    IN  IF taken.selected # <<>>
        THEN [previous |-> summary, input |-> taken.selected,
              covered |-> IdsOf(taken.selected), through |-> Last(taken.selected).id]
        ELSE [previous |-> clip.previous, input |-> clip.input,
              covered |-> IdsOf(turns[1]), through |-> Last(turns[1]).id]

-----------------------------------------------------------------------------
Everything == DOMAIN messages
Context == AssembleContext(messages, previous)
Regrouped == GroupTurns(Context.candidates).turns
ChosenBatch == SelectBatch(previous, Context.candidates)
LastIds(turns) == {Last(turns[k]).id : k \in DOMAIN turns}

(* The loop of assemble_conversation_context, which stops at the first turn that does *)
(* not fit, keeps exactly the window of module Turns, in chronological order, and     *)
(* hands exactly the other turns to the summary.                                     *)
WindowAgrees ==
    /\ IdsOf(Context.messages) = Window(messages, Everything)
    /\ IdsOf(Context.candidates) = Candidates(messages, Everything)
    /\ \A part \in {Context.messages, Context.candidates} :
          \A i, j \in DOMAIN part : i < j => part[i].id < part[j].id

(* A conversation that only grows never takes a turn back into the window: what was   *)
(* handed to the summary is never sent raw again.                                    *)
LeavesForGood ==
    [][Candidates(messages, Everything) \subseteq Candidates(messages, Everything)']_vars

(* The batch is the oldest candidate turns, never none of them, and fits the budget   *)
(* if one truncation marker does.  It wastes nothing: when the first turn fits, one   *)
(* turn more than the batch takes would not; when it does not, its messages keep the  *)
(* largest common limit that fits beside the previous summary                         *)
(* (_select_summary_batch, _clip_first_turn_to_budget).                               *)
BatchIsFull ==
    Regrouped # <<>> =>
        LET batch == ChosenBatch
            turn == Regrouped[1]
            size == SerializedSize(batch.previous, batch.input) IN
        /\ batch.covered = {i \in IdsOf(Context.candidates) : i <= batch.through}
        /\ batch.through \in LastIds(Regrouped)
        /\ Envelope + Wrapping + MarkerSize <= CharacterBudget => size <= CharacterBudget
        /\ IF SerializedSize(previous, turn) <= CharacterBudget
           THEN \A k \in DOMAIN Regrouped \ {1} :
                   Last(Regrouped[k - 1]).id = batch.through =>
                      SerializedSize(previous, batch.input \o Regrouped[k]) > CharacterBudget
           ELSE SerializedSize(0, Clipped(turn, MarkerSize)) <= CharacterBudget =>
                   \A n \in 0..Max({turn[i].size : i \in DOMAIN turn}) :
                      SerializedSize(batch.previous, Clipped(turn, n))
                         \notin (size + 1)..CharacterBudget

=============================================================================
