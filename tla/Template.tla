------------------------------ MODULE Template ------------------------------
(***************************************************************************)
(* replaceAll of the email-consumer (workers/email-consumer/cmd/main.go),  *)
(* with which a template's placeholders are replaced by their values.      *)
(*                                                                         *)
(* A text is a sequence of pieces as long as the placeholder: the          *)
(* placeholder itself, or other text.  The length is what the loop turns   *)
(* on: it goes round again while as much is left behind a match.           *)
(***************************************************************************)
EXTENDS Integers, Sequences

Placeholder == "{{key}}"
Value == "value"

\* What the slice expression s[start:i] gives for start > i: no text, but the
\* end of the process.
Panic == <<"panic">>

\* The index, from 0, of the first placeholder of s; Len(s) if there is none.
FirstMatch(s) ==
  CHOOSE i \in 0 .. Len(s) :
    /\ i < Len(s) => s[i + 1] = Placeholder
    /\ \A j \in 1 .. i : s[j] # Placeholder

\* The outer loop, from the iteration that begins with the given start.  Every
\* iteration searches from 0, also those after the first.  A slip to compare
\* with: what stands before the match is not copied.
LoopForgettingPrefix(s) ==
  LET loop[start \in 0 .. Len(s)] ==
        LET i == FirstMatch(s)
        IN  IF i = Len(s) THEN SubSeq(s, start + 1, Len(s))
            ELSE IF start > i THEN Panic
            ELSE IF i + 1 = Len(s) THEN <<Value>>
            ELSE IF loop[i + 1] = Panic THEN Panic
            ELSE <<Value>> \o loop[i + 1]
  IN  loop[0]

ReplaceAll(s) ==
  LET loop[start \in 0 .. Len(s)] ==
        LET i == FirstMatch(s)
            done == SubSeq(s, start + 1, i) \o <<Value>>
        IN  IF i = Len(s) THEN SubSeq(s, start + 1, Len(s))
            ELSE IF start > i THEN Panic
            ELSE IF i + 1 = Len(s) THEN done
            ELSE IF loop[i + 1] = Panic THEN Panic
            ELSE done \o loop[i + 1]
  IN  loop[0]

\* What a template is for: every placeholder replaced, the rest as it was.
Rendered(s) ==
  [i \in 1 .. Len(s) |-> IF s[i] = Placeholder THEN Value ELSE s[i]]

=============================================================================
