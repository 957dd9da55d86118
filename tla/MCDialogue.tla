----------------------------- MODULE MCDialogue -----------------------------
(* Small instances of Dialogue for TLC. *)
EXTENDS Dialogue, TLC

Id(letters, upper, padded) == [letters |-> letters, upper |-> upper, padded |-> padded]

Choice(id) == [id |-> id, label |-> 1, style |-> "primary"]

\* Ids that differ in letters, in case, in space, or not at all.
SomeIds == {Id("a", FALSE, FALSE), Id("a", TRUE, FALSE), Id("a", FALSE, TRUE),
            Id("b", FALSE, FALSE)}

Pairs == {<<Choice(Id("a", FALSE, TRUE)), Choice(x)>> : x \in SomeIds}

Plain == <<Choice(Id("a", FALSE, FALSE)), Choice(Id("b", FALSE, FALSE))>>

\* A title that just fits over ids that do and do not, and texts that just do not.
AllQuestions ==
  {[title |-> MaxTitle, body |-> 1, choices |-> p] : p \in Pairs}
    \cup {[title |-> MaxTitle + 1, body |-> MaxBody, choices |-> Plain],
          [title |-> 1, body |-> MaxBody + 1, choices |-> Plain]}

PlainQuestions == {[title |-> 1, body |-> 1, choices |-> Plain]}
=============================================================================
