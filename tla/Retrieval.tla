------------------------------ MODULE Retrieval ------------------------------
(***************************************************************************)
(* Retrieval-augmented answers: how a document is cut into chunks          *)
(* (services/rag/ingestion.py), which chunks a question finds and how much *)
(* of them the model is shown (services/rag/retrieval.py), and what the    *)
(* policy agent cites (services/agent_runtime/policy_agent.py).            *)
(*                                                                         *)
(* A text is its length.  A paragraph is the sequence of the lengths of    *)
(* its sentences; a stored chunk has a similarity to the question, a rank  *)
(* by its words (0 when they do not match), and what its document says:    *)
(* its title, and served when it is active and of a trusted level.         *)
(***************************************************************************)
EXTENDS Integers, Sequences, SequencesExt, FiniteSets, FiniteSetsExt, NoValue, Ranking

CONSTANTS
    Paragraphs,      \* documents: sequences of paragraphs
    ChunkSize,       \* settings.chunk_size
    ChunkOverlap,         \* settings.chunk_overlap
    ChunkTables,     \* stored chunks: sets of [id, similarity, rank, served, title, size]
    TopK,            \* chunks a search returns at most
    LabelSize,       \* length of the label before a chunk, without its number and title
    ContextBudget    \* characters of context: twice max_tokens

Chunk ==
    [id : Int, similarity : Int, rank : Nat, served : BOOLEAN, title : Nat, size : Nat]

\* Ids are the keys of a table, and a sentence is not empty.
ASSUME RetrievalAssumption ==
    /\ ChunkSize \in Nat /\ TopK \in Nat /\ LabelSize \in Nat /\ ContextBudget \in Nat
    /\ Paragraphs \subseteq Seq(Seq(Nat \ {0}))
    /\ \A table \in ChunkTables :
          /\ table \subseteq Chunk /\ IsFiniteSet(table)
          /\ \A c, d \in table : c.id = d.id => c = d

VARIABLES
    lookup,     \* what was stored or asked
    outcome     \* what came of it

retrievalVars == <<lookup, outcome>>

Total(lengths) == FoldLeft(LAMBDA sum, n : sum + n, 0, lengths)

-----------------------------------------------------------------------------
(* split_text.  A piece is the sequence of the sentences it is made of, each as            *)
(* <<paragraph, sentence>>, and its length: paragraphs are joined by one character.        *)

Piece(sentences, size) == [sentences |-> sentences, size |-> size]
Nothing == Piece(<<>>, 0)

\* A sentence that does not fit starts a new piece; an empty piece is not kept.
AddSentence(acc, id, size) ==
    IF acc.buf.size + size < ChunkSize
      THEN [acc EXCEPT !.buf = Piece(Append(acc.buf.sentences, id), acc.buf.size + size)]
      ELSE [chunks |-> IF acc.buf.size > 0 THEN Append(acc.chunks, acc.buf) ELSE acc.chunks,
            buf |-> Piece(<<id>>, size)]

SplitParagraph(chunks, p, paragraph) ==
    FoldLeftDomain(LAMBDA acc, s : AddSentence(acc, <<p, s>>, paragraph[s]),
                   [chunks |-> chunks, buf |-> Nothing], paragraph)

AddParagraph_DropPiece(acc, p, paragraph) ==
    LET whole == Piece([s \in DOMAIN paragraph |-> <<p, s>>], Total(paragraph))
        kept == IF acc.buf.size > 0 THEN Append(acc.chunks, acc.buf) ELSE acc.chunks IN
    IF acc.buf.size + whole.size < ChunkSize
      THEN [acc EXCEPT !.buf =
               IF acc.buf.size = 0 THEN whole
               ELSE Piece(acc.buf.sentences \o whole.sentences, acc.buf.size + 1 + whole.size)]
      ELSE IF whole.size > ChunkSize THEN SplitParagraph(acc.chunks, p, paragraph)
           ELSE [chunks |-> kept, buf |-> whole]

\* A paragraph joins the piece before it when they fit; otherwise that piece is a chunk, and
\* a paragraph that is too long by itself is cut at its sentences.
AddParagraph(acc, p, paragraph) ==
    LET whole == Piece([s \in DOMAIN paragraph |-> <<p, s>>], Total(paragraph))
        kept == IF acc.buf.size > 0 THEN Append(acc.chunks, acc.buf) ELSE acc.chunks IN
    IF acc.buf.size + whole.size < ChunkSize
      THEN [acc EXCEPT !.buf =
               IF acc.buf.size = 0 THEN whole
               ELSE Piece(acc.buf.sentences \o whole.sentences, acc.buf.size + 1 + whole.size)]
      ELSE IF whole.size > ChunkSize THEN SplitParagraph(kept, p, paragraph)
           ELSE [chunks |-> kept, buf |-> whole]

\* The chunks, and the length of each with the end of the one before it in front.
SplitText(paragraphs) ==
    LET split == FoldLeftDomain(LAMBDA acc, p : AddParagraph(acc, p, paragraphs[p]),
                                [chunks |-> <<>>, buf |-> Nothing], paragraphs)
        chunks == IF split.buf.size > 0 THEN Append(split.chunks, split.buf) ELSE split.chunks IN
    [n \in DOMAIN chunks |->
        [sentences |-> chunks[n].sentences, size |-> chunks[n].size,
         stored |-> IF n = 1 \/ ChunkOverlap = 0 THEN chunks[n].size
                    ELSE Min({chunks[n - 1].size, ChunkOverlap}) + 1 + chunks[n].size]]

IngestDocument ==
    /\ outcome = None
    /\ \E paragraphs \in Paragraphs :
          /\ lookup' = [kind |-> "document", paragraphs |-> paragraphs]
          /\ outcome' = SplitText(paragraphs)

-----------------------------------------------------------------------------
(* hybrid_search *)

Pool_NoMargin == TopK

Pool == 2 * TopK

\* The Pool nearest chunks of the whole table, equally near ones in any choice, and any Pool
\* of those whose words match: that query has no order.
VectorMatches(table) ==
    {T \in SUBSET table :
        /\ Cardinality(T) = Min({Pool, Cardinality(table)})
        /\ \A c \in T, d \in table \ T : c.similarity >= d.similarity}
TextMatches(table) ==
    LET matching == {c \in table : c.rank > 0} IN
    {T \in SUBSET matching : Cardinality(T) = Min({Pool, Cardinality(matching)})}

\* Only now is it asked whether a chunk may be served, and the best TopK are taken; the query
\* leaves the order of equal scores open, the model takes that of the ids.
HybridSearch(near, text) ==
    LET score(c) == (IF c \in near THEN c.similarity ELSE 0) + (IF c \in text THEN c.rank ELSE 0)
        matches == {c \in near \cup text : c.served}
        better == {p \in matches \X matches :
                      \/ score(p[1]) > score(p[2])
                      \/ score(p[1]) = score(p[2]) /\ p[1].id < p[2].id} IN
    SubSeq(Ranked(matches, better), 1, Min({TopK, Cardinality(matches)}))

Separator == 2

\* The label of the n-th chunk: its number and the title of its document.
Digits(n) == Cardinality({d \in 0..n : 10^d <= n})
Prefix(n, c) == LabelSize + Digits(n) + c.title

ShowChunk_FreeSeparator(acc, c) ==
    LET prefix == Prefix(Len(acc.shown) + 1, c)
        room == ContextBudget - acc.used IN
    IF acc.full \/ room <= prefix
      THEN [acc EXCEPT !.full = TRUE]
      ELSE LET size == Min({c.size, room - prefix}) IN
           [shown |-> Append(acc.shown, size), full |-> FALSE, used |-> acc.used + prefix + size]

\* A chunk is shown as far as it fits after its label; the first that does not is the end.
ShowChunk(acc, c) ==
    LET prefix == Prefix(Len(acc.shown) + 1, c)
        separator == IF acc.shown = <<>> THEN 0 ELSE Separator
        room == ContextBudget - acc.used - separator IN
    IF acc.full \/ room <= prefix
      THEN [acc EXCEPT !.full = TRUE]
      ELSE LET size == Min({c.size, room - prefix}) IN
           [shown |-> Append(acc.shown, size), full |-> FALSE,
            used |-> acc.used + separator + prefix + size]

BuildContext(chunks) ==
    FoldLeft(ShowChunk, [shown |-> <<>>, used |-> 0, full |-> FALSE], chunks).shown

\* Without evidence the agent declines; otherwise it cites every chunk that was found.
PolicyAnswer(near, text) ==
    LET found == HybridSearch(near, text) IN
    [found |-> found, shown |-> BuildContext(found), declined |-> found = <<>>,
     citations |-> {c.id : c \in ToSet(found)}]

AskPolicy ==
    /\ outcome = None
    /\ \E table \in ChunkTables :
          \E near \in VectorMatches(table), text \in TextMatches(table) :
              /\ lookup' = [kind |-> "question", table |-> table, text |-> text]
              /\ outcome' = PolicyAnswer(near, text)

-----------------------------------------------------------------------------
RetrievalInit == lookup = None /\ outcome = None
RetrievalNext == IngestDocument \/ AskPolicy
RetrievalSpec == RetrievalInit /\ [][RetrievalNext]_retrievalVars

Looked(kind) == outcome # None /\ lookup.kind = kind

\* The chunks of a document, as they are cut and before each is given the end of the one before
\* it, hold each of its sentences once and in order, and a chunk of more than ChunkSize
\* characters is a single sentence (split_text).
ChunksKeepText ==
    Looked("document") =>
        /\ FlattenSeq([n \in DOMAIN outcome |-> outcome[n].sentences])
             = FlattenSeq([p \in DOMAIN lookup.paragraphs |->
                              [s \in DOMAIN lookup.paragraphs[p] |-> <<p, s>>]])
        /\ \A n \in DOMAIN outcome :
              outcome[n].size > ChunkSize => Len(outcome[n].sentences) = 1

\* What a chunk can score at best: a similarity may be negative.
Score(c, text) ==
    Max({0, c.similarity}) + (IF c \in text THEN c.rank ELSE 0)

\* A chunk that may be served is missed only for TopK that score no less than it is similar, or
\* because 2 * TopK others, of whatever document, are as near to the question; nothing else is
\* found (hybrid_search).
FoundUnlessCrowded ==
    Looked("question") =>
        /\ \A c \in ToSet(outcome.found) : c \in lookup.table /\ c.served
        /\ \A c \in lookup.table : c.served /\ c \notin ToSet(outcome.found) =>
              \/ /\ Len(outcome.found) = TopK
                 /\ \A d \in ToSet(outcome.found) : Score(d, lookup.text) >= c.similarity
              \/ Cardinality({d \in lookup.table \ {c} : d.similarity >= c.similarity})
                    >= 2 * TopK

\* The model is shown a beginning of what is cited: whole chunks, the last perhaps cut, with
\* labels and separators within the budget; it ends early only at a chunk of which not one
\* character would fit after its label. Those after that chunk are left out as well, even one
\* whose label is shorter (build_context, PolicyAgent.generate).
ShownFillsBudget ==
    Looked("question") =>
        LET shown == outcome.shown
            found == outcome.found
            used == Total([n \in DOMAIN shown |-> Prefix(n, found[n]) + shown[n]])
                    + Separator * Max({0} \cup {Len(shown) - 1})
            next == Len(shown) + 1 IN
        /\ Len(shown) <= Len(found)
        /\ \A n \in DOMAIN shown : shown[n] <= found[n].size
        /\ used <= ContextBudget
        /\ \A n \in DOMAIN shown : shown[n] < found[n].size => used = ContextBudget
        /\ next <= Len(found) =>
              used + Prefix(next, found[next]) + (IF shown = <<>> THEN 0 ELSE Separator)
                >= ContextBudget

=============================================================================
