----------------------------- MODULE Normalizer -----------------------------
(***************************************************************************)
(* The normalizer: NORMALIZE counts the words of one document, TOKENS      *)
(* lists the most frequent (src/src/normalizer.cpp).                       *)
(*                                                                         *)
(* A title is a sequence of words already parted at what no word contains; *)
(* a word is a sequence of numbers, which stand for letters and digits     *)
(* whatever their case, and Dash for '-' and '_'.  The body counts as one  *)
(* word, its hexadecimal form.                                             *)
(***************************************************************************)
EXTENDS Holdings

CONSTANTS
    Dash,          \* stands for '-' and '_'; less than every letter and digit
    EmitLimit,     \* most words listed (the code: 256)
    EmitCounts     \* numbers of words commands ask for

ASSUME NormalizerConstants ==
    /\ Dash \in Nat
    /\ EmitLimit \in Nat
    /\ \A title \in Titles : title \in Seq(Seq(Nat))
    /\ \A body \in Bodies : body \in Seq(Nat \ {Dash})

VARIABLES
    normalizer,    \* Store.normalizer: tokens, those emitted, readiness
    source         \* history: the words of the document, as it was

normalizerVars == <<normalizer, source>>

NormalizerInit ==
    /\ normalizer = [tokens |-> <<>>, emitted |-> <<>>, ready |-> FALSE]
    /\ source = <<>>

-----------------------------------------------------------------------------
\* canonicalize_token: the dashes at both ends go.
Canonical(word) ==
    LET solid == {i \in DOMAIN word : word[i] # Dash}
    IN  IF solid = {} THEN <<>> ELSE SubSeq(word, Min(solid), Max(solid))

\* tokenize_text: words of which nothing is left are dropped.
Tokenized(text) ==
    LET words == [i \in DOMAIN text |-> Canonical(text[i])]
    IN  At(words, {i \in DOMAIN words : words[i] # <<>>})

Words(document) ==
    Tokenized(document.title) \o Tokenized(<<document.body>>)

\* Mutant: a word is counted with the last one only.
MergeTokenLast(tokens, word) ==
    IF tokens # <<>> /\ Last(tokens).normalized = word
    THEN [tokens EXCEPT ![Len(tokens)].count = @ + 1]
    ELSE Append(tokens, [normalized |-> word, count |-> 1])

\* merge_token.  All tokens are of one document.
MergeToken(tokens, word) ==
    LET same == {i \in DOMAIN tokens : tokens[i].normalized = word}
    IN  IF same # {}
        THEN [tokens EXCEPT ![Min(same)].count = @ + 1]
        ELSE Append(tokens, [normalized |-> word, count |-> 1])

\* The tokens of a list of words, in the order they first come in.
Merged(words) ==
    LET tokens[n \in 0..Len(words)] ==
            IF n = 0 THEN <<>> ELSE MergeToken(tokens[n - 1], words[n])
    IN  tokens[Len(words)]

\* The order of std::string.
Less(left, right) ==
    \/ IsStrictPrefix(left, right)
    \/ \E i \in DOMAIN left \cap DOMAIN right :
          /\ left[i] < right[i]
          /\ \A j \in 1..(i - 1) : left[j] = right[j]

\* The order of std::sort in normalize_document.
TokenBefore(left, right) ==
    \/ left.count > right.count
    \/ left.count = right.count /\ Less(left.normalized, right.normalized)

-----------------------------------------------------------------------------
(* NORMALIZE id *)

NormalizeDocument(id) ==
    /\ status' = IF id \in DOMAIN documents THEN "ok" ELSE "not_found"
    /\ IF status' = "ok"
       THEN /\ source' = Words(documents[id])
            /\ normalizer' =
                  [tokens  |-> Sorted(Merged(source'), TokenBefore),
                   emitted |-> <<>>,
                   ready   |-> TRUE]
       ELSE UNCHANGED normalizerVars

-----------------------------------------------------------------------------
(* TOKENS limit *)

EmitCheck(limit) ==
    IF ~normalizer.ready THEN "invalid_state"
    ELSE IF limit \notin 1..EmitLimit THEN "limit" ELSE "ok"

EmitNormalizedTokens(limit) ==
    /\ status' = EmitCheck(limit)
    /\ normalizer' =
          IF status' = "ok"
          THEN [normalizer EXCEPT
                   !.emitted = SubSeq(normalizer.tokens, 1,
                                      Min({limit, Len(normalizer.tokens)}))]
          ELSE normalizer
    /\ UNCHANGED source

-----------------------------------------------------------------------------
NormalizerNext ==
    \/ \E id \in DocIds : NormalizeDocument(id)
    \/ \E limit \in EmitCounts : EmitNormalizedTokens(limit)

\* How often a word is in a list of words.
Occurrences(word, list) == Cardinality({i \in DOMAIN list : list[i] = word})

(* The tokens are the words of the document as it was normalized, each once *)
(* and with the number of its occurrences, title and body taken together;   *)
(* and TOKENS lists the most frequent: no word left out is more frequent    *)
(* than one listed, whatever happened to the document in between.           *)
TokensCounted ==
    LET tokens  == normalizer.tokens
        emitted == normalizer.emitted
    IN  /\ {tokens[i].normalized : i \in DOMAIN tokens} = Range(source)
        /\ \A i \in DOMAIN tokens :
              tokens[i].count = Occurrences(tokens[i].normalized, source)
        /\ \A i, j \in DOMAIN tokens :
              i # j => tokens[i].normalized # tokens[j].normalized
        /\ Range(emitted) \subseteq Range(tokens)
        /\ \A listed \in Range(emitted), left \in Range(tokens) \ Range(emitted) :
              listed.count >= left.count
=============================================================================
