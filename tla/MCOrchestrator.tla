---------------------------- MODULE MCOrchestrator ----------------------------
(***************************************************************************)
(* Instances of Orchestrator small enough for TLC.  Each message is named  *)
(* after a real one, quoted beside it; the words are the keys it contains. *)
(***************************************************************************)
EXTENDS Orchestrator, TLC

\* The tokens.
Words ==
  {"me", "called", "name", "full name", "client", "telephone", "clarification", "user",
   "want", "buy", "book", "sedan", "leave", "request", "better", "call", "van", "exists",
   "which", "onto", "repair", "Ivan", "Pyotr", "confirm", "discount", "credit", "budget",
   "internal", "rule"}
Numbers  == {"7 900 123-45-67", "7 911 765-43-21", "79001234567", "1500000"}
Widths   == [n \in Numbers |-> IF n = "1500000" THEN 7 ELSE IF n = "79001234567" THEN 11 ELSE 15]
YaEnding == {"I", "me", "user"}
Signs    == {"I", "+", ":", ".", "?", "nova", "Drive"}

\* A message of at most eight words that contains these keys and no more, and reads so.
Short(words, text) == [Silence EXCEPT !.says = words, !.text = text]
Long(words, text)  == [Short(words, text) EXCEPT !.short = FALSE]

\* "Хочу купить седан, +7 900 123-45-67, оставить заявку, меня зовут Иван"
BuyNow ==
  [Long({"buy", "car", "leave a request"},
        <<"want", "buy", "sedan", ".", "+", "7 900 123-45-67", ".", "leave", "request", ".",
          "me", "called", "Ivan">>) EXCEPT !.body = "sedan"]
\* "Хочу купить седан, меня зовут Иван, +7 900 123-45-67, оставить заявку."
BuyTidily ==
  [Long({"buy", "car", "leave a request"},
        <<"want", "buy", "sedan", ".", "me", "called", "Ivan", ".", "+", "7 900 123-45-67", ".",
          "leave", "request", ".">>) EXCEPT !.body = "sedan"]
\* "Звоните лучше на +7 911 765-43-21."
OtherPhone == Short({}, <<"call", "better", "onto", "+", "7 911 765-43-21", ".">>)
\* "Я Пётр, а фургон есть?"
OrVan == [Short({"van"}, <<"I", "Pyotr", ".", "van", "exists", "?">>) EXCEPT !.body = "van"]
\* "Бюджет 1500000"
Bid == [Short({"budget"}, <<"budget", "1500000">>) EXCEPT !.budget = 15]
\* "Хочу записаться на тест-драйв Nova Drive."
TestDrive ==
  Short({"test drive", "nova", "book"}, <<"want", "book", "onto", "nova", "Drive", ".">>)
\* "79001234567, запишите меня на ремонт."
Repair == Short({"repair"}, <<"79001234567", ".", "book", "me", "onto", "repair", ".">>)
\* "Подтверди скидку на кредит"
Discount == Short({"financial commitment", "credit"}, <<"confirm", "discount", "onto", "credit">>)
\* "Хочу купить седан"
BuySedan == [Short({"buy", "car"}, <<"want", "buy", "sedan">>) EXCEPT !.body = "sedan"]
\* "Какой внутренний регламент"
Internal == Short({"internal", "regulation"}, <<"which", "internal", "rule">>)

Dialogues ==
  {BuyNow, BuyTidily, OtherPhone, OrVan, Bid, TestDrive, Repair, Discount, Internal}
Races == {BuySedan, Internal}

Everybody == {"client", "staff"}
Clients   == {"client"}
BothModes == {"langgraph", "legacy"}
Langgraph == {"langgraph"}

\* The knowledge base: one document or two of each section.
Conversation == {"conversation-staff-only", "conversation-greeting", "conversation-safety-illegal"}
Sections ==
  [d \in Conversation |-> "conversation"] @@
  ("sales-models" :> "sales" @@ "finance-credit" :> "finance" @@ "service-warranty" :> "service" @@
   "internal-escalation" :> "internal")
Owners == [d \in DOMAIN Sections |-> IF d \in Conversation THEN "ORCHESTRATOR" ELSE Anyone]
Base   == DOMAIN Sections

\* Without the orchestrator's own documents: a refusal is an error.
SmallBase     == {"sales-models", "internal-escalation"}
SmallSections == [d \in SmallBase |-> Sections[d]]
SmallOwners   == [d \in SmallBase |-> Anyone]

Models ==
  {[name |-> "Comfort", bodies |-> {"sedan"}, price |-> 18],
   [name |-> "Drive", bodies |-> {"crossover"}, price |-> 24],
   [name |-> "Cargo", bodies |-> {"van"}, price |-> 21],
   [name |-> "Classic", bodies |-> {"sedan"}, price |-> 9]}
=============================================================================
