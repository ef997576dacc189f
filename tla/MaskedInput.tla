---------------------------- MODULE MaskedInput ----------------------------
(***************************************************************************)
(* How a secret is read from the terminal: _masked_input of                *)
(* services/bindings.py, which reads the bytes itself so that a pasted     *)
(* value may have several lines.                                           *)
(***************************************************************************)
EXTENDS Naturals, Sequences, FiniteSets

CONSTANT MaxKeys  \* bound: keys before the value is submitted

\* What arrives: a character of one byte; one of two bytes, and one whose
\* second byte is a control character or not printable in latin-1; control
\* keys; the markers around a paste, and a marker whose escape byte comes
\* more than 50 ms before the rest; another escape sequence; the end of input.
Key == {"x", "wide", "odd", "cr", "lf", "bs", "intr", "eot", "eof",
        "open", "close", "lateopen", "lateclose", "arrow"}
Letter == {"x", "wide", "odd"}

VARIABLES
  typed,  \* what arrived so far
  chars,  \* the bytes kept
  paste,  \* in_paste
  cr,     \* prev_was_cr
  end     \* "" while reading, then how it ended
vars == <<typed, chars, paste, cr, end>>

Init == typed = <<>> /\ chars = <<>> /\ paste = FALSE /\ cr = FALSE /\ end = ""

\* The bytes of a character that pass isprintable, read as latin-1.
Kept(k) ==
  CASE k = "x" -> <<"x">> [] k = "wide" -> <<"w1", "w2">> [] k = "odd" -> <<"w1">>

Append1(b) == chars' = Append(chars, b)

\* An escape sequence: a paste marker, or one to ignore, of which a paste keeps
\* the printable part.
Escape(k) ==
  /\ k \in {"open", "close", "arrow"}
  /\ paste' = (k = "open" \/ (paste /\ k # "close"))
  /\ chars' = IF k = "arrow" /\ paste THEN chars \o <<"x", "x">> ELSE chars
  /\ cr' = FALSE /\ UNCHANGED end

\* A marker torn by a pause is a lone escape, dropped, and then five characters.
LateEscape(k) ==
  /\ k \in {"lateopen", "lateclose"}
  /\ chars' = chars \o [i \in 1..5 |-> "x"]
  /\ cr' = FALSE /\ UNCHANGED <<paste, end>>

Backspace(k) ==
  /\ k = "bs"
  /\ chars' = IF chars = <<>> THEN chars ELSE SubSeq(chars, 1, Len(chars) - 1)
  /\ cr' = FALSE /\ UNCHANGED <<paste, end>>

Control(k) ==
  /\ k \in {"intr", "eot", "eof"}
  /\ end' = IF k = "intr" THEN "interrupted" ELSE "submitted"
  /\ UNCHANGED <<chars, paste, cr>>

\* A mutation: a line feed that follows a carriage return is kept too.
PastedBoth(k) ==
  /\ paste
  /\ \/ /\ k \in {"cr", "lf"} /\ Append1("nl") /\ cr' = (k = "cr")
     \/ /\ k \in Letter /\ chars' = chars \o Kept(k) /\ cr' = FALSE
  /\ UNCHANGED <<paste, end>>

\* Inside a paste newlines are content: CR, LF and CRLF are each one.
Pasted(k) ==
  /\ paste
  /\ \/ /\ k = "cr" /\ Append1("nl") /\ cr' = TRUE
     \/ /\ k = "lf" /\ cr /\ UNCHANGED chars /\ cr' = FALSE
     \/ /\ k = "lf" /\ ~cr /\ Append1("nl") /\ cr' = FALSE
     \/ /\ k \in Letter /\ chars' = chars \o Kept(k) /\ cr' = FALSE
  /\ UNCHANGED <<paste, end>>

\* Outside, a newline submits.
Line(k) ==
  /\ ~paste
  /\ \/ k \in {"cr", "lf"} /\ end' = "submitted" /\ UNCHANGED chars
     \/ k \in Letter /\ chars' = chars \o Kept(k) /\ UNCHANGED end
  /\ cr' = FALSE /\ UNCHANGED paste

Press ==
  /\ end = "" /\ Len(typed) < MaxKeys
  /\ \E k \in Key :
       /\ typed' = Append(typed, k)
       /\ Escape(k) \/ LateEscape(k) \/ Backspace(k) \/ Control(k) \/ Pasted(k) \/ Line(k)

Next == Press
Spec == Init /\ [][Next]_vars

\* The numbers of a finite set, from the least up.
Ranked(s) == [n \in 1..Cardinality(s) |-> CHOOSE i \in s : Cardinality({j \in s : j <= i}) = n]

\* The value returned: UTF-8 with a mark for each byte that decodes to nothing.
Decoded(i) ==
  CASE chars[i] = "w1" -> IF i < Len(chars) /\ chars[i + 1] = "w2" THEN "wide" ELSE "?"
    [] chars[i] = "w2" -> IF i > 1 /\ chars[i - 1] = "w1" THEN "" ELSE "?"
    [] OTHER -> chars[i]
Value ==
  LET read == Ranked({i \in DOMAIN chars : Decoded(i) # ""})
  IN  [n \in DOMAIN read |-> Decoded(read[n])]

-----------------------------------------------------------------------------
(* What was meant *)

InPaste(i) == \E o \in 1..i : typed[o] = "open" /\ \A j \in o..i : typed[j] # "close"

\* Keys that stand for a character: letters, and a paste's newlines, of which
\* CRLF is one.
Writes(i) ==
  \/ typed[i] \in Letter
  \/ typed[i] = "cr" /\ InPaste(i)
  \/ typed[i] = "lf" /\ InPaste(i) /\ (i = 1 \/ typed[i - 1] # "cr")

\* A key's character is gone if from there on backspaces outnumber characters.
Erased(i) ==
  \E j \in i..Len(typed) :
    Cardinality({k \in i + 1..j : typed[k] = "bs"}) > Cardinality({k \in i + 1..j : Writes(k)})

Meant ==
  LET kept == Ranked({i \in DOMAIN typed : Writes(i) /\ ~Erased(i)})
  IN  [n \in DOMAIN kept |-> IF typed[kept[n]] \in {"cr", "lf"} THEN "nl" ELSE typed[kept[n]]]

Arrived(keys) == \E i \in DOMAIN typed : typed[i] \in keys

\* The secret read is the one typed and pasted, a paste's lines included, and a
\* paste never submits: as long as no character has an odd second byte, no
\* wide one is erased, no marker is torn and no escape sequence is pasted.
SecretIsAsTyped ==
  end = "submitted" /\ ~Arrived({"odd", "lateopen", "lateclose", "arrow"})
    /\ ~(Arrived({"wide"}) /\ Arrived({"bs"}))
  => /\ Value = Meant
     /\ typed[Len(typed)] \in {"cr", "lf"} => ~InPaste(Len(typed))
=============================================================================
