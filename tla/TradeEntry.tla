----------------------------- MODULE TradeEntry -----------------------------
(***************************************************************************)
(* What a guided session promises about the trade it is filled in for, as  *)
(* the user sees it: the trade is a draft until it is submitted, does not  *)
(* change while it is, and is stored at most once, complete and as it was  *)
(* submitted; a session that is done never stores anything again.          *)
(* GuidedFlow implements it (guided.go 28-40, handler.go 579-636).         *)
(***************************************************************************)
EXTENDS Sequences

CONSTANTS
  Entries,   \* the sessions
  Drafts,    \* what a trade may be while it is filled in
  Complete   \* the trades that may be stored

VARIABLES
  draft,   \* the trade of each session
  phase,   \* each session's phase
  stored   \* what each session has stored

vars == <<draft, phase, stored>>

Init ==
  /\ draft \in [Entries -> Drafts]
  /\ phase = [e \in Entries |-> "draft"]
  /\ stored = [e \in Entries |-> <<>>]

Changes(e) ==
  /\ draft' \in [Entries -> Drafts]
  /\ \A f \in Entries \ {e} : draft'[f] = draft[f]

(* Late answers may still change a session that is done: it does not       *)
(* matter any more.                                                        *)
Edit(e) ==
  /\ phase[e] # "submitting"
  /\ Changes(e)
  /\ UNCHANGED <<phase, stored>>

Submit(e) ==
  /\ phase[e] = "draft"
  /\ phase' = [phase EXCEPT ![e] = "submitting"]
  /\ Changes(e)
  /\ UNCHANGED stored

Store(e) ==
  /\ phase[e] = "submitting"
  /\ stored[e] = <<>>
  /\ draft[e] \in Complete
  /\ stored' = [stored EXCEPT ![e] = <<draft[e]>>]
  /\ UNCHANGED <<draft, phase>>

End(e) ==
  /\ phase[e] = "submitting"
  /\ phase' = [phase EXCEPT ![e] = "done"]
  /\ UNCHANGED <<draft, stored>>

Next == \E e \in Entries : Edit(e) \/ Submit(e) \/ Store(e) \/ End(e)

Spec == Init /\ [][Next]_vars
=============================================================================
