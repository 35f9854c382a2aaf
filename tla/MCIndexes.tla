----------------------------- MODULE MCIndexes -----------------------------
(* Indexes on a small instance.  Bytes, offsets and page numbers are taken   *)
(* modulo 2 and 4, so that keys of the skip index meet and wrap; unsigned    *)
(* ints modulo 8, so that the end of a field does.                           *)
EXTENDS Indexes

\* Two words that are one to the normalizer, and one that is nothing to it.
MCTitles == { << <<3>>, <<1, 2>>, <<0, 1, 2>> >>, << <<3>>, <<0>> >> }

MCBodies == { <<>>, <<3>> }

MCPageBytes == { <<1, 1, 1, 0>>, <<0, 1>> }

Field(offset, width) == [name |-> <<3>>, offset |-> offset, width |-> width]

MCFieldLists == { <<Field(1, 1), Field(0, 1)>>, <<Field(0, 2)>>, <<Field(1, 7)>>,
                  <<Field(2, 1)>> }

MCLinkTables == { <<1>>, <<5, 1>> }

MCLinkWord == <<2>>

\* A hash that tells few texts apart.
MCSlotFor(text, round, slots, seed) ==
    (Len(text) + 3 * (IF text = <<>> THEN 0 ELSE text[1][1]) + round * 2 + seed) % slots

MCProbeTexts == { << <<3>> >>, << <<1>> >> }

MCBloomPlans == { <<2, 2>>, <<3, 1>>, <<1, 1>> }

MCIndexPlans == { <<1, 2>>, <<2, 3>>, <<0, 1>> }
=============================================================================
