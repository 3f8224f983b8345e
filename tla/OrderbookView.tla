--------------------------- MODULE OrderbookView ---------------------------
(***************************************************************************)
(* What the trading page promises about its orderbook: the rows it puts    *)
(* on screen always have the left coin of the pair that is selected at     *)
(* that moment, or of a default pair while none is selected, whatever      *)
(* answers are still on their way, and a pair that stays selected while    *)
(* the page is open is shown in the end.  Rows of the previous pair may    *)
(* stay for a while after a change, or be cleared by it.                   *)
(***************************************************************************)
CONSTANTS
  Pairs,     \* pairs of coins
  NoPair,
  Default    \* the pair that stands in while none is selected

VARIABLES
  selected,  \* the pair of the two market selectors, NoPair before the first choice
  open,      \* the trading page is open and a pair is selected
  shown      \* the pair whose rows are on screen

vars == <<selected, open, shown>>

Init ==
  /\ selected = NoPair
  /\ open = FALSE
  /\ shown = NoPair

(* The user selects, logs out or moves to another page: rows stay or go.   *)
Change ==
  /\ selected' \in Pairs \cup {NoPair}
  /\ open' \in BOOLEAN
  /\ shown' \in {shown, NoPair}

(* The pair the page works on.                                             *)
Current == IF selected = NoPair THEN Default ELSE selected

(* Rows appear on screen: those of a pair with the current left coin.      *)
Show ==
  /\ shown' \in {p \in Pairs : p[1] = Current[1]}
  /\ UNCHANGED <<selected, open>>

ShowSelected == Show /\ shown' = selected

Next == Change \/ Show

SafeSpec == Init /\ [][Next]_vars

(* While the page stays open, the rows of its pair are shown in the end.   *)
Spec == SafeSpec /\ WF_vars(open /\ ShowSelected)
=============================================================================
