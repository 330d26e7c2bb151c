-------------------------------- MODULE Screen --------------------------------
(***************************************************************************)
(* What the console promises: a sheet of text of which the screen shows    *)
(* the last Height rows.  The text is one line of positions; whatever      *)
(* moves the writing position past the end rolls the sheet by a row.       *)
(***************************************************************************)
EXTENDS Integers

CONSTANTS Width, Height, Blank, Ink

VARIABLES
  text,  \* what is on the screen, by position
  at     \* where the next character goes

Size == Width * Height
RowStart(p) == (p \div Width) * Width

(* The writing position becomes p, in the text t. *)
Write(t, p) ==
  IF p < Size THEN text' = t /\ at' = p
  ELSE /\ text' = [i \in 0 .. Size - 1 |-> IF i + Width < Size THEN t[i + Width] ELSE Blank]
       /\ at' = p - Width

Character == \E i \in Ink : Write([text EXCEPT ![at] = i], at + 1)
NewLine == Write(text, RowStart(at) + Width)
Erase == at > 0 /\ Write([text EXCEPT ![at - 1] = Blank], at - 1)
Move == \E p \in 0 .. Size - 1 : Write(text, p)
Clear == Write([i \in 0 .. Size - 1 |-> Blank], 0)

Init == text = [i \in 0 .. Size - 1 |-> Blank] /\ at = 0
Next == Character \/ NewLine \/ Erase \/ Move \/ Clear
Spec == Init /\ [][Next]_<<text, at>>

=============================================================================
