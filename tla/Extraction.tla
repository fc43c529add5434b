----------------------------- MODULE Extraction -----------------------------
(***************************************************************************)
(* services/memory/extraction.py and the classification it asks of         *)
(* security.py: how a user message is cut into sentences, and which        *)
(* sentences may become memories.                                          *)
(*                                                                         *)
(* A text is a sequence of kinds of characters; "token" is a full stop     *)
(* that _token_period_analysis finds inside a number, a host name, a URL   *)
(* or an address.  In a message a sentence is what the patterns say of it: *)
(*   asks         "remember", "forget" or None (explicit, negated intent)  *)
(*   sensitivity  "normal", "personal_sensitive" or "credential"           *)
(*   kind         "statement" when the sentence speaks of the user, is no  *)
(*                question, names nobody else and nothing temporary        *)
(*   category     that of the first rule with a word in it, or None        *)
(*   long         more than 500 characters                                 *)
(***************************************************************************)
EXTENDS Naturals, Sequences, SequencesExt, FiniteSets, FiniteSetsExt, NoValue

CONSTANTS
    Character,       \* kinds of characters a text is typed with
    MaxText,         \* bound on the length of a text
    Sentence,        \* sentences a message can have
    Invented,        \* those of them a provider makes up
    MaxSentences,    \* bound on the sentences of a message
    Confidence,      \* confidences a provider gives, in hundredths
    Thresholds,      \* settings of memory_capture_confidence_threshold
    LocalLimit       \* candidates deterministic_candidates returns at most (8)

SentenceRow ==
    [asks : STRING \cup {None}, sensitivity : {"normal", "personal_sensitive", "credential"},
     kind : STRING, category : STRING \cup {None}, long : BOOLEAN]

ASSUME ExtractionAssumption ==
    /\ Sentence \subseteq SentenceRow /\ Invented \subseteq Sentence
    /\ Confidence \subseteq Nat /\ Thresholds \subseteq Nat
    /\ LocalLimit \in Nat /\ MaxSentences \in Nat

VARIABLES
    text,    \* a text, typed character by character
    turn     \* the last extraction: its message, candidates, threshold and result

extractionVars == <<text, turn>>

-----------------------------------------------------------------------------
(* _source_sentences *)

Marks == {"mark"}                            \* 。！？!?
TerminalGroup == {"mark", "dot", "token", "ellipsis"}

\* A full stop ends a sentence at the end of the text and before a space or a Chinese
\* character, unless it belongs to a token.
EndsSentence(t, i) ==
    \/ t[i] \in Marks
    \/ /\ t[i] = "dot"
       /\ i = Len(t) \/ t[i + 1] \in {"space", "cjk"}

\* The sentence without the white space around it, as the span of its characters.
Stripped(t, from, to) ==
    LET solid == {i \in from..to : t[i] # "space"} IN
    IF solid = {} THEN <<>> ELSE << <<Min(solid), Max(solid)>> >>

Scan_OneMark(t, acc, i) ==
    IF acc.next > i \/ ~EndsSentence(t, i) THEN acc
    ELSE [spans |-> acc.spans \o Stripped(t, acc.start, i), start |-> i + 1, next |-> i + 1]

\* At the first character that ends a sentence, the marks that follow still belong to it.
Scan(t, acc, i) ==
    IF acc.next > i \/ ~EndsSentence(t, i) THEN acc
    ELSE LET end == Max({j \in i..Len(t) : \A k \in (i + 1)..j : t[k] \in TerminalGroup}) IN
         [spans |-> acc.spans \o Stripped(t, acc.start, end), start |-> end + 1, next |-> end + 1]

SourceSentences(t) ==
    LET scanned == FoldLeftDomain(LAMBDA acc, i : Scan(t, acc, i),
                                  [spans |-> <<>>, start |-> 1, next |-> 1], t) IN
    scanned.spans \o Stripped(t, scanned.start, Len(t))

TypeCharacter ==
    /\ Len(text) < MaxText
    /\ \E c \in Character : text' = Append(text, c)
    /\ UNCHANGED turn

-----------------------------------------------------------------------------
(* Candidates *)

ExplicitIntent(s) == s.asks = "remember"
NegatedIntent(s) == s.asks = "forget"
StableUserSource(s) == s.kind = "statement"

\* The whole message is classified before it is cut: a credential in it (broken over
\* its sentences or in one), or a dot that may or may not end a sentence, and nothing is
\* extracted.
Refuses(message) ==
    \/ message.broken
    \/ \E s \in ToSet(message.sentences) : s.sensitivity = "credential"

\* "" of sanitize_memory_text.
Sanitized(s, explicit) ==
    s.sensitivity = "normal" \/ (s.sensitivity = "personal_sensitive" /\ explicit)

\* The sentences the local rules may take, and those they have a category for; they become
\* candidates without a model, at most LocalLimit of them.
LocalSource(s) ==
    /\ ~s.long /\ ~NegatedIntent(s)
    /\ s.sensitivity # "credential"
    /\ s.sensitivity = "personal_sensitive" => ExplicitIntent(s)
    /\ StableUserSource(s)

LocalSentence(s) ==
    LocalSource(s) /\ (s.category # None \/ s.sensitivity = "personal_sensitive")

Local(s) == [content |-> s, evidence |-> s, confidence |-> 90]

DeterministicCandidates(message) ==
    IF Refuses(message) THEN <<>>
    ELSE FoldLeft(LAMBDA acc, s : IF Len(acc) < LocalLimit /\ LocalSentence(s)
                                  THEN Append(acc, Local(s)) ELSE acc,
                  <<>>, message.sentences)

\* The evidence is a sentence of the message and the content is the evidence.
VerifiedEvidence(c, message) ==
    /\ c.content = c.evidence
    /\ c.evidence \in ToSet(message.sentences)
    /\ StableUserSource(c.evidence)

Accepts_Claimed(c, message, threshold) ==
    LET explicit == ~NegatedIntent(c.evidence) IN
    /\ VerifiedEvidence(c, message)
    /\ ~NegatedIntent(c.evidence)
    /\ Sanitized(c.evidence, explicit)
    /\ c.confidence >= (IF explicit THEN Min({threshold, 50}) ELSE threshold)

\* Whether the user asked is read from the evidence, whatever the candidate says of it.
Accepts(c, message, threshold) ==
    LET explicit == ExplicitIntent(c.evidence) IN
    /\ VerifiedEvidence(c, message)
    /\ ~NegatedIntent(c.evidence)
    /\ Sanitized(c.evidence, explicit)
    /\ c.confidence >= (IF explicit THEN Min({threshold, 50}) ELSE threshold)

ValidateAndFilterCandidates(raw, message, threshold) ==
    IF Refuses(message) THEN <<>>
    ELSE FoldLeft(LAMBDA acc, c : IF Accepts(c, message, threshold) THEN Append(acc, c) ELSE acc,
                  <<>>, raw)

\* Provider candidates are sentences of the message or made up, or one beside the other;
\* an answer that is not of the schema, or no answer, leaves nothing.
ExtractMemoryCandidates(message, raw, threshold) ==
    [message |-> message, raw |-> raw, threshold |-> threshold,
     taken |-> ValidateAndFilterCandidates(raw, message, threshold)]

\* One candidate at a time: they are filtered one by one.
RequestCandidates(message) ==
    \E threshold \in Thresholds :
        \/ turn' = ExtractMemoryCandidates(message, <<>>, threshold)
        \/ \E e, s \in Invented \cup ToSet(message.sentences), c \in Confidence :
                 ~e.long /\ turn' = ExtractMemoryCandidates(message,
                     <<[content |-> s, evidence |-> e, confidence |-> c]>>, threshold)

Extract ==
    /\ turn = None /\ text = <<>>
    /\ \E n \in 0..MaxSentences : \E sentences \in [1..n -> Sentence], broken \in BOOLEAN :
          LET message == [sentences |-> sentences, broken |-> broken] IN
          \/ RequestCandidates(message)
          \/ \E threshold \in Thresholds :
                turn' = ExtractMemoryCandidates(message, DeterministicCandidates(message),
                                                threshold)
    /\ UNCHANGED text

ExtractionInit == text = <<>> /\ turn = None
ExtractionNext == (turn = None /\ TypeCharacter) \/ Extract
ExtractionSpec == ExtractionInit /\ [][ExtractionNext]_extractionVars

-----------------------------------------------------------------------------
\* The last characters of sentences: the end of a run of marks that starts with one that
\* ends a sentence.
Cuts(t) ==
    {j \in DOMAIN t :
        /\ \E i \in 1..j : EndsSentence(t, i) /\ \A k \in (i + 1)..j : t[k] \in TerminalGroup
        /\ j = Len(t) \/ t[j + 1] \notin TerminalGroup}

\* The sentences of a text are what lies between its cuts, without losing a character that
\* is not white space (_source_sentences).
SentencesAreCuts ==
    LET spans == SourceSentences(text)
        pieces == {p \in (DOMAIN text) \X (DOMAIN text) :
                      /\ p[1] = 1 \/ p[1] - 1 \in Cuts(text)
                      /\ p[2] = Len(text) \/ p[2] \in Cuts(text)
                      /\ p[1] <= p[2] /\ \A k \in p[1]..(p[2] - 1) : k \notin Cuts(text)} IN
    /\ ToSet(spans) = UNION {ToSet(Stripped(text, p[1], p[2])) : p \in pieces}
    /\ \A m, n \in DOMAIN spans : m < n => spans[m][2] < spans[n][1]

\* The two ways in agree: what the local rules take is accepted by the filter whatever the
\* threshold up to their confidence, and what is accepted from a model is a sentence the
\* local rules refuse at most for want of a category (deterministic_candidates beside
\* validate_and_filter_candidates).
GatesAgree ==
    turn # None =>
        /\ turn.raw = DeterministicCandidates(turn.message) /\ turn.threshold <= 90 =>
              turn.taken = turn.raw
        /\ \A c \in ToSet(turn.taken) : LocalSource(c.content)

=============================================================================
