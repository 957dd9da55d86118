---------------------------- MODULE Confirmation ----------------------------
(***************************************************************************)
(* A question of Claude to its requester as data: what the worker accepts  *)
(* (worker.go, parseRequesterConfirmationText), what the card shows of it  *)
(* (messenger.go, buildDecisionCardPayload) and how a button's value is    *)
(* found among the stored choices (approval.go, FindChoice).               *)
(*                                                                         *)
(* A text is its length in bytes, which is what len() counts, without      *)
(* surrounding space.  The id of a choice is its letters in one case, with *)
(* the marks upper (some letter is a capital) and padded (space around it).*)
(***************************************************************************)
EXTENDS Naturals, Sequences, FiniteSets

CONSTANT Letters   \* what the ids are made of, in lower case

Ids == [letters: Letters, upper: BOOLEAN, padded: BOOLEAN]

Styles == {"", "primary", "default", "danger", "other"}

Choices == [id: Ids, label: Nat, style: Styles]

MaxTitle == 120
MaxBody == 800
MaxLabel == 30

TrimSpace(id) == [id EXCEPT !.padded = FALSE]

EqualFold(a, b) == a.letters = b.letters /\ a.padded = b.padded

-----------------------------------------------------------------------------
(* validateRequesterConfirmation.                                          *)

ValidChoice(choice) ==
  /\ choice.label \in 1..MaxLabel
  /\ ~choice.id.upper
  /\ choice.style # "other"

\* Mutant: ids are compared as they are written.
DistinctAsWritten(choices) ==
  \A i, k \in DOMAIN choices : choices[i].id = choices[k].id => i = k

Distinct(choices) ==
  \A i, k \in DOMAIN choices : TrimSpace(choices[i].id) = TrimSpace(choices[k].id) => i = k

\* Mutant: the title may be as long as the body.
AcceptsLongTitle(q) ==
  /\ q.title \in 1..MaxBody /\ q.body \in 1..MaxBody
  /\ Len(q.choices) \in 2..3
  /\ \A i \in DOMAIN q.choices : ValidChoice(q.choices[i])
  /\ Distinct(q.choices)

Accepts(q) ==
  /\ q.title \in 1..MaxTitle /\ q.body \in 1..MaxBody
  /\ Len(q.choices) \in 2..3
  /\ \A i \in DOMAIN q.choices : ValidChoice(q.choices[i])
  /\ Distinct(q.choices)

-----------------------------------------------------------------------------
(* The card and the click.                                                 *)

\* truncateForCard: a text over the limit ends in three dots.
TruncateForCard(size, limit) ==
  [size |-> IF size <= limit THEN size ELSE limit, cut |-> size > limit]

Button(choice) == [label |-> choice.label, style |-> choice.style, value |-> choice.id]

\* buildDecisionCardPayload: one button for each choice, with its id as it is.
Card(q) == [title |-> TruncateForCard(q.title, MaxTitle),
            body |-> TruncateForCard(q.body, MaxBody),
            buttons |-> [i \in DOMAIN q.choices |-> Button(q.choices[i])]]

\* FindChoice: the place of the first choice that has the id, if one has it.
Matching(choices, id) ==
  {i \in DOMAIN choices : EqualFold(TrimSpace(choices[i].id), TrimSpace(id))}

FindChoice(choices, id) ==
  CHOOSE i \in Matching(choices, id) : \A k \in Matching(choices, id) : i <= k
=============================================================================
