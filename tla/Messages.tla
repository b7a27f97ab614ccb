------------------------------- MODULE Messages -------------------------------
(***************************************************************************)
(* What a chat message is to the program.  The code looks for keys in the  *)
(* text, and reads contacts off it with regular expressions.  A message    *)
(* here is the set of keys it contains, and the tokens of its text for the *)
(* expressions.  One word stands for all the keys that no table of the     *)
(* program tells apart, and a message contains at most one key of each     *)
(* word.  Keys that contain another key come with it: a message that says  *)
(* "check document" says "document" too.                                   *)
(*                                                                         *)
(* A text is a sequence of messages: the history's questions in order, or  *)
(* a short question together with the earlier one it continues.  The code  *)
(* joins them with line breaks, which are white space to its expressions:  *)
(* a match may begin in one message and end in the next.                   *)
(***************************************************************************)
EXTENDS Integers, SequencesExt

CONSTANTS
  Word,      \* Cyrillic words of two letters or more
  EndsInYa,  \* those of them that end in the letter "ya", and "I", which is that letter
  Number,    \* stretches of digits, with blanks, dashes or parentheses between them
  Width,     \* how many characters a number has
  Sign       \* everything else: marks, single letters, Latin words

\* "." stands for the comma and the semicolon too, ":" for a dash, "?" for the
\* marks that no expression mentions.
Token == Word \cup Number \cup Sign

\* What the program itself puts between a question and the one it continues.
OwnWords == {"clarification", "user"}

ASSUME MessagesAssumption ==
  /\ Word \cap Number = {} /\ Word \cap Sign = {} /\ Number \cap Sign = {}
  /\ {"me", "called", "name", "full name", "client", "telephone"} \cup OwnWords \subseteq Word
  /\ {"I", "+", ":", ".", "?", "nova"} \subseteq Sign
  /\ EndsInYa \subseteq Word \cup {"I"}
  /\ Width \in [Number -> Nat]

None == "none"   \* Python's None
Agent == {"SALES_AGENT", "SUPPORT_AGENT", "SERVICE_AGENT", "EMPLOYEE_AGENT"}

\* A record of what the text says: its words; the canned phrase or ambiguous
\* request it consists of; whether it has at most eight words; its tokens, where
\* a plus comes with a number; the kind of body and the budget (in 100 000
\* roubles, 0 for none) in it, and whether the budget is all it says, with no unit.
IsMessage(m) ==
  /\ {"says", "phrase", "short", "text", "body", "budget", "bare"} = DOMAIN m
  /\ m.short \in BOOLEAN /\ m.bare \in BOOLEAN /\ m.budget \in Nat
  /\ m.text \in Seq(Token)
  /\ m.text # <<>> => Last(m.text) # "+"

Says(m, words) == m.says \cap words # {}
WordsOf(text) == UNION {m.says : m \in ToSet(text)}

\* The text the regular expressions see.
Joined(text) == FlattenSeq([i \in DOMAIN text |-> text[i].text])

\* The body type and the budget are the last ones of a text.
LastGiven(text, field, nothing) ==
  LET i == SelectLastInSeq(text, LAMBDA m : m[field] # nothing)
  IN  IF i = 0 THEN nothing ELSE text[i][field]
=============================================================================
