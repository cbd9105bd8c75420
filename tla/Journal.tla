------------------------------ MODULE Journal -------------------------------
(***************************************************************************)
(* What becomes of a #journal message: ParseJournalMessage                 *)
(* (internal/adapter/telegram/parser.go 25-145), RecordTrade               *)
(* (internal/service/journal.go 25-56) and the trade as it comes back from *)
(* Notion (internal/adapter/notion/trade.go 80-239).                       *)
(*                                                                         *)
(* The lines for different fields do not touch, so a message is its lines  *)
(* by field.  Of the symbol lines the last one counts; of the direction    *)
(* lines the last one that names a direction; the result lines all count.  *)
(* Session, confluence and notes are left out: nothing reads them.         *)
(***************************************************************************)
EXTENDS Integers, Sequences, SequencesExt

CONSTANTS
  Amounts,   \* the amounts of RR, without sign, that a message names
  MaxLines   \* bound: the result lines of a message

ASSUME JournalAssumption == Amounts \subseteq Nat \ {0} /\ MaxLines \in Nat

(* The symbols that are told apart: none, "/" (empty without its slash),   *)
(* and those of two asset types.                                           *)
SymbolLines == {"none", "/", "EUR/USD", "XAUUSD"}
DirectionLines == {"none", "HOLD", "BUY"}

(* A result line: a number, a status with or without an amount, or neither.*)
(* rr has the amount, if there is one.                                     *)
Signed == Amounts \cup {0} \cup {-n : n \in Amounts}
Numbers == [status : {"number"}, rr : {{n} : n \in Signed}]
Words == [status : {"WIN", "LOSS", "BE"}, rr : {{}} \cup {{n} : n \in Amounts \cup {0}}]
Junk == [status |-> "?", rr |-> {}]
ResultLines == Numbers \cup Words \cup {Junk}

JournalMessages ==
  [symbol : SymbolLines, direction : DirectionLines,
   results : UNION {[1..n -> ResultLines] : n \in 0..MaxLines}]

-----------------------------------------------------------------------------
(* The one element of a set, or a default if it has none.                  *)
TheElement(S, default) == IF S = {} THEN default ELSE CHOOSE n \in S : TRUE

Sign(n) == IF n > 0 THEN "WIN" ELSE IF n < 0 THEN "LOSS" ELSE "BE"

(* Faulty variant: the amount after LOSS is taken as it is.                *)
ParseRRUnsigned(t, line) ==
  CASE line.status = "number" -> [t EXCEPT !.rr = TheElement(line.rr, 0),
                                           !.status = Sign(TheElement(line.rr, 0))]
    [] line.status \in {"WIN", "LOSS"} ->
         [t EXCEPT !.status = line.status, !.rr = TheElement(line.rr, @)]
    [] line.status = "BE" -> [t EXCEPT !.status = "BE", !.rr = 0]
    [] OTHER -> t

(* parseRR: a number decides both fields; a status without an amount       *)
(* leaves the RR of an earlier line; anything else changes nothing.        *)
ParseRR(t, line) ==
  CASE line.status = "number" -> [t EXCEPT !.rr = TheElement(line.rr, 0),
                                           !.status = Sign(TheElement(line.rr, 0))]
    [] line.status = "WIN"  -> [t EXCEPT !.status = "WIN", !.rr = TheElement(line.rr, @)]
    [] line.status = "LOSS" -> [t EXCEPT !.status = "LOSS",
                                         !.rr = TheElement({-n : n \in line.rr}, @)]
    [] line.status = "BE"   -> [t EXCEPT !.status = "BE", !.rr = 0]
    [] OTHER -> t

(* The trade of a message; a "/" in the symbol is left out.  Where the     *)
(* code has the empty string, it is "empty".                               *)
BeforeResults(msg) ==
  [symbol |-> CASE msg.symbol = "EUR/USD" -> "EURUSD"
                [] msg.symbol = "/" -> "empty"
                [] OTHER -> msg.symbol,
   direction |-> IF msg.direction = "BUY" THEN "BUY" ELSE "empty",
   status |-> "empty", rr |-> 0]

ParseJournalMessage(msg) == FoldLeft(ParseRR, BeforeResults(msg), msg.results)

(* A message without the line of a required field is answered with an      *)
(* error, and so is a trade without a symbol or a direction.               *)
Missing(msg) == msg.symbol = "none" \/ msg.direction = "none"
Validate(t) == t.symbol # "empty" /\ t.direction # "empty"

DetectAssetType(symbol) == IF symbol = "XAUUSD" THEN "GOLD" ELSE "FOREX"

(* The page of a trade: an RR of 0 is not stored, and read as one that is  *)
(* missing; a trade without a status was made an open one.                 *)
BuildProperties(t) ==
  [asset |-> IF DetectAssetType(t.symbol) = "GOLD" THEN "Gold" ELSE "Forex",
   status |-> IF t.status = "empty" THEN "OPEN" ELSE t.status,
   rr |-> {t.rr} \ {0}]

ParseSingleTrade(page) ==
  [asset |-> page.asset, status |-> page.status, rr |-> TheElement(page.rr, 0)]

Accepted == {msg \in JournalMessages : ~Missing(msg) /\ Validate(ParseJournalMessage(msg))}

(* The trade that is in Notion after the message, as it is read back.      *)
Journaled(msg) == ParseSingleTrade(BuildProperties(ParseJournalMessage(msg)))

-----------------------------------------------------------------------------
(* The trade t of a message with at most one result line is what the line  *)
(* says: a win never has a negative RR, a loss never a positive one, a     *)
(* break-even and an open trade have none; an amount that is named is the  *)
(* amount of the trade; a trade is open only if nothing says how it ended. *)
AsWritten(msg, t) ==
  LET named == IF msg.results = <<>> THEN 0 ELSE TheElement(msg.results[1].rr, 0) IN
  /\ t.status = "WIN" => t.rr >= 0
  /\ t.status = "LOSS" => t.rr <= 0
  /\ t.status \in {"BE", "OPEN"} => t.rr = 0
  /\ t.status # "BE" => t.rr \in {named, -named}
  /\ t.status = "OPEN" <=> msg.results \in {<<>>, <<Junk>>}
=============================================================================
