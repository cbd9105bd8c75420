----------------------------- MODULE BotPolling -----------------------------
(***************************************************************************)
(* Long polling: Bot.Start and Bot.getUpdates                              *)
(* (internal/adapter/telegram/bot.go).                                     *)
(*                                                                         *)
(* Telegram is external: it keeps updates until a getUpdates call with a   *)
(* higher offset confirms them, and answers with those from the offset on; *)
(* a call may fail although Telegram has received its offset.  The bot     *)
(* starts a goroutine for every update of an answer and moves its offset,  *)
(* which is only in memory: a restarted bot begins with 0, for which       *)
(* Telegram sends all it still keeps.                                      *)
(***************************************************************************)
EXTENDS Integers, Sequences, FiniteSets

CONSTANTS
  MaxUpdates,   \* bound: updates sent to the bot
  MaxErrors,    \* bound: failed getUpdates calls
  MaxBotRestarts   \* bound: restarts of the process

ASSUME PollingAssumption ==
  MaxUpdates \in Nat /\ MaxErrors \in Nat /\ MaxBotRestarts \in Nat

VARIABLES
  sent,       \* Telegram: the number of updates so far; their ids are 1..sent
  kept,       \* Telegram: the first update that is not confirmed
  offset,     \* b.offset
  batch,      \* the updates of the last answer that are not started yet
  errors, botRestarts,
  started,    \* for each update, how often a goroutine was started for it
  life        \* history: the updates started since the process was started, in order

pollVars == <<sent, kept, offset, batch, errors, botRestarts, started, life>>

Ids == 1..MaxUpdates

PollInit ==
  /\ sent = 0
  /\ kept = 1
  /\ offset = 0
  /\ batch = <<>>
  /\ errors = 0 /\ botRestarts = 0
  /\ started = [i \in Ids |-> 0]
  /\ life = <<>>

(* A user sends a message or presses a button.                             *)
SendUpdate ==
  /\ sent < MaxUpdates
  /\ sent' = sent + 1
  /\ UNCHANGED <<kept, offset, batch, errors, botRestarts, started, life>>

-----------------------------------------------------------------------------
Largest(a, b) == IF a > b THEN a ELSE b

(* The updates first..last, as Telegram orders them.                       *)
Answer(first, last) == [i \in 1..(last - first + 1) |-> first + i - 1]

(* Telegram receives an offset and forgets what it confirms.               *)
Confirm == kept' = Largest(kept, offset)

(* getUpdates with an answer: none or some of the kept updates.            *)
GetUpdates(last) ==
  /\ batch = <<>>
  /\ Confirm
  /\ last \in kept' - 1..sent
  /\ sent >= kept' => last >= kept'
  /\ batch' = Answer(kept', last)
  /\ UNCHANGED <<sent, offset, errors, botRestarts, started, life>>

(* Its error, before or after Telegram received the offset.                *)
GetUpdatesFails ==
  /\ batch = <<>>
  /\ errors < MaxErrors
  /\ errors' = errors + 1
  /\ Confirm \/ UNCHANGED kept
  /\ UNCHANGED <<sent, offset, batch, botRestarts, started, life>>

(* Faulty variant: the offset skips an update.                             *)
StartHandlerSkips ==
  /\ batch # <<>>
  /\ offset' = Largest(offset, Head(batch) + 2)
  /\ started' = [started EXCEPT ![Head(batch)] = @ + 1]
  /\ life' = Append(life, Head(batch))
  /\ batch' = Tail(batch)
  /\ UNCHANGED <<sent, kept, errors, botRestarts>>

(* One round of the loop over the answer: the offset moves past the update *)
(* and a goroutine is started for it.                                      *)
StartHandler ==
  /\ batch # <<>>
  /\ offset' = IF Head(batch) >= offset THEN Head(batch) + 1 ELSE offset
  /\ started' = [started EXCEPT ![Head(batch)] = @ + 1]
  /\ life' = Append(life, Head(batch))
  /\ batch' = Tail(batch)
  /\ UNCHANGED <<sent, kept, errors, botRestarts>>

RestartBot ==
  /\ botRestarts < MaxBotRestarts
  /\ botRestarts' = botRestarts + 1
  /\ offset' = 0
  /\ batch' = <<>>
  /\ life' = <<>>
  /\ UNCHANGED <<sent, kept, errors, started>>

Poll == (\E last \in 0..MaxUpdates : GetUpdates(last)) \/ StartHandler

PollNext == SendUpdate \/ Poll \/ GetUpdatesFails \/ RestartBot

PollSpec == PollInit /\ [][PollNext]_pollVars

(* The polling loop never stops while the process runs (bot.go 37-56).     *)
FairPollSpec == PollSpec /\ WF_pollVars(Poll)

-----------------------------------------------------------------------------
PollTypeOK ==
  /\ sent \in 0..MaxUpdates
  /\ kept \in 1..(sent + 1)
  /\ offset \in 0..(sent + 1)
  /\ batch \in Seq(1..sent)
  /\ errors \in Nat /\ botRestarts \in Nat
  /\ started \in [Ids -> 0..(botRestarts + 1)]
  /\ life \in Seq(1..sent)

(***************************************************************************)
(* A running bot starts each update once, in the order Telegram gave them, *)
(* also after failed calls whose offset Telegram may have missed (bot.go   *)
(* 43-53); and what Telegram forgets was started before: a crash may       *)
(* repeat updates but never skips one (bot.go 50-51 before 108-109).       *)
(***************************************************************************)
InOrderOnce == \A i \in 2..Len(life) : life[i] = life[i - 1] + 1

NothingSkipped == \A i \in Ids : i < kept => started[i] > 0

StartedInOrder == InOrderOnce /\ NothingSkipped

(***************************************************************************)
(* Every update is handled at some time, whatever calls fail.              *)
(***************************************************************************)
EveryUpdateStarts == \A i \in Ids : (sent >= i) ~> (started[i] > 0)

-----------------------------------------------------------------------------
(***************************************************************************)
(* Why nothing is skipped.  The offset is 0 until the process has started  *)
(* its first update and then one past the last it started; an answer goes  *)
(* on from there, or from what Telegram keeps; what is below the offset    *)
(* was started, and what is not was started by earlier processes only.     *)
(***************************************************************************)
Position ==
  /\ life = <<>> => offset = 0
  /\ life # <<>> => life[Len(life)] = offset - 1 /\ kept <= offset

AnswerGoesOn ==
  /\ \A i \in 2..Len(batch) : batch[i] = batch[i - 1] + 1
  /\ batch # <<>> => Head(batch) = IF life = <<>> THEN kept ELSE offset

BelowOffset ==
  \A i \in Ids : IF i < offset THEN started[i] > 0 ELSE started[i] <= botRestarts

PollIInv == PollTypeOK /\ StartedInOrder /\ Position /\ AnswerGoesOn /\ BelowOffset
=============================================================================
