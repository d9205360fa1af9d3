-------------------------------- MODULE Decode --------------------------------
(***************************************************************************)
(* What a request promises its client, whatever pipeline runs below it: a  *)
(* text that only grows, by the right tokens, at most MaxEmit at a time,   *)
(* and not beyond its stop token.  Tokens are positions, as in             *)
(* InferRequest: the text of n tokens is <<1, ..., n>>.                    *)
(***************************************************************************)
EXTENDS Integers, Sequences

CONSTANTS PromptLen, EosPositions, MaxEmit

VARIABLES text, stop

Prefix(n) == [p \in 1..n |-> p]

Init == text = Prefix(PromptLen) /\ stop \in EosPositions

\* One step adds its accepted drafts and its bonus token.
Emit ==
  \E n \in 1..MaxEmit :
    /\ Len(text) + n <= stop
    /\ text' = Prefix(Len(text) + n)
    /\ UNCHANGED stop

Spec == Init /\ [][Emit]_<<text, stop>>
FairSpec == Spec /\ WF_<<text, stop>>(Emit)

=============================================================================
