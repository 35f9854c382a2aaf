------------------------------- MODULE Bloom -------------------------------
(***************************************************************************)
(* The filter: BLOOM and PROBE (src/src/bloom.cpp).  It is built from what *)
(* the store, the schema and the links hold at that moment, and asked      *)
(* later, with the seed and the number of rounds it was built with.        *)
(*                                                                         *)
(* Texts are told apart up to the case of their letters, which the filter  *)
(* lowers.  A text is a sequence of words, a word a sequence of numbers;   *)
(* the hexadecimal form of bytes is the word of those bytes.               *)
(***************************************************************************)
EXTENDS Holdings, Rows, References

CONSTANTS
    WordLimit,       \* most words of the filter (the code: 1024)
    WordBits,        \* bits of a word (the code: 64)
    HashLimit,       \* most rounds (the code: 16)
    SlotFor(_, _, _, _),   \* slot of a text, in a round, of so many, by a seed
    Seeds,           \* seeds that last_digest may leave
    LinkWord,        \* the word "link"
    BodyPrefix,      \* bytes of a body that are a text (the code: 12)
    PagePrefix,      \* bytes of a page that are a text (the code: 10)
    TextLimit,       \* longest text asked for (the code: 128)
    SampleLimit,     \* probes kept by BLOOM (the code: 24)
    ProbeLimit,      \* probes kept by PROBE (the code: 64)
    ProbeTrim,       \* probes dropped beyond the limit (the code: 16)
    ProbeTexts,      \* texts commands ask for
    BloomPlans       \* numbers of words and rounds commands ask for

ASSUME BloomConstants ==
    /\ {WordLimit, HashLimit, BodyPrefix, PagePrefix, TextLimit,
        SampleLimit, ProbeLimit, ProbeTrim} \subseteq Nat
    /\ WordBits \in Nat \ {0}
    /\ ProbeTrim \in 1..ProbeLimit
    /\ SampleLimit <= ProbeLimit

VARIABLES
    bloom,           \* Store.bloom: words, as the set of bits; rounds; seed
    probes,          \* BloomFilterState.probes
    inserted         \* history: the texts the filter was built from

bloomVars == <<bloom, probes, inserted>>

BloomInit ==
    /\ bloom = [words |-> 0, bits |-> {}, hash_functions |-> 0, seed |-> 0,
                ready |-> FALSE]
    /\ probes = <<>>
    /\ inserted = {}

Prefix(s, n) == SubSeq(s, 1, Min({n, Len(s)}))

-----------------------------------------------------------------------------
\* The two texts of a document; an empty body has none.
DocumentTexts(document) ==
    <<document.title>> \o
        (IF document.body = <<>> THEN <<>>
         ELSE << <<Prefix(document.body, BodyPrefix)>> >>)

\* collect_bloom_tokens.  The code walks documents in any order, pages in
\* the order of their addition; here both go by their identifiers, which
\* decides only which texts are among the first that BLOOM keeps as probes.
Texts ==
    LET docs == Ids(documents)
        some == Ids(pages)
    IN  Flat([i \in DOMAIN docs |-> DocumentTexts(documents[docs[i]])])
        \o [i \in DOMAIN some |-> <<Prefix(pages[some[i]].bytes, PagePrefix)>>]
        \o [i \in DOMAIN schema.fields |-> <<schema.fields[i].name>>]
        \o [i \in DOMAIN links |-> <<LinkWord, <<links[i]>> >>]

\* The bits of a text in every round.
SlotsOf(text, words, rounds, seed) ==
    [round \in 1..rounds |-> SlotFor(text, round - 1, words * WordBits, seed)]

-----------------------------------------------------------------------------
(* BLOOM words rounds: limits and an empty source change nothing. *)

BloomCheck(words, rounds) ==
    IF words \notin 2..WordLimit \/ rounds \notin 1..HashLimit THEN "limit"
    ELSE IF Texts = <<>> THEN "invalid_state" ELSE "ok"

FilterOf(words, rounds, seed) ==
    [words |-> words, hash_functions |-> rounds, seed |-> seed, ready |-> TRUE,
     bits |-> UNION {Range(SlotsOf(text, words, rounds, seed)) :
                        text \in Range(Texts)}]

Sample(text, words, rounds, seed) ==
    [token |-> text, slots |-> SlotsOf(text, words, rounds, seed),
     maybe_present |-> TRUE]

BuildBloom(words, rounds) ==
    /\ status' = BloomCheck(words, rounds)
    /\ IF status' = "ok"
       THEN \E seed \in Seeds :
               /\ bloom' = FilterOf(words, rounds, seed)
               /\ probes' = LET kept == Prefix(Texts, SampleLimit)
                            IN  [i \in DOMAIN kept |->
                                    Sample(kept[i], words, rounds, seed)]
               /\ inserted' = Range(Texts)
       ELSE UNCHANGED bloomVars

-----------------------------------------------------------------------------
(* PROBE text *)

\* The characters of a text, its words parted by one each.
Size(text) == Len(text) - 1 + Total([i \in DOMAIN text |-> Len(text[i])])

ProbeCheck(text) ==
    IF ~bloom.ready THEN "invalid_state"
    ELSE IF text = <<>> \/ Size(text) > TextLimit THEN "limit" ELSE "ok"

\* Mutant: the rounds are counted from one.
ProbeSlotsOff(text) ==
    [round \in 1..bloom.hash_functions |->
        SlotFor(text, round, bloom.words * WordBits, bloom.seed)]

ProbeSlots(text) == SlotsOf(text, bloom.words, bloom.hash_functions, bloom.seed)

\* Beyond the limit the oldest go, more than one at a time.
Trimmed(list) ==
    IF Len(list) > ProbeLimit THEN SubSeq(list, ProbeTrim + 1, Len(list)) ELSE list

ProbeBloom(text) ==
    /\ status' = ProbeCheck(text)
    /\ probes' = IF status' = "ok"
                 THEN LET slots == ProbeSlots(text)
                      IN  Trimmed(Append(probes,
                              [token |-> text, slots |-> slots,
                               maybe_present |-> Range(slots) \subseteq bloom.bits]))
                 ELSE probes
    /\ UNCHANGED <<bloom, inserted>>

-----------------------------------------------------------------------------
BloomNext ==
    \/ \E plan \in BloomPlans : BuildBloom(plan[1], plan[2])
    \/ \E text \in ProbeTexts : ProbeBloom(text)

(* The filter never denies a text it was built from, whatever became of the *)
(* store since, and whatever seed it got; a text it does deny was not in.   *)
(* The probes it keeps say which of its bits they were answered by, and     *)
(* neither its own sample nor those of PROBE outgrow what it may keep.      *)
NoFalseNegatives ==
    /\ \A i \in DOMAIN probes :
          LET probe == probes[i]
          IN  /\ probe.token \in inserted => probe.maybe_present
              /\ probe.maybe_present <=> Range(probe.slots) \subseteq bloom.bits
    /\ \A text \in inserted : Range(ProbeSlots(text)) \subseteq bloom.bits
    /\ Len(probes) <= ProbeLimit
=============================================================================
