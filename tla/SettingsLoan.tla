---------------------------- MODULE SettingsLoan ----------------------------
(***************************************************************************)
(* What battery conditioning promises about the inverters' settings: they  *)
(* are borrowed and given back.  While nothing is lent the registers are   *)
(* the owner's and only the owner changes them; while they are lent the    *)
(* owner's values are not forgotten; and they are given back only once     *)
(* every register carries its owner's value again.                         *)
(***************************************************************************)
CONSTANTS
  Units,     \* the parallel inverters
  Setting    \* what one inverter's charge registers may hold

VARIABLES
  reg,    \* what the registers hold
  own,    \* what their owner last set
  lent    \* whether a session has them

loan == <<reg, own, lent>>

Init ==
  /\ reg \in [Units -> Setting]
  /\ own = reg
  /\ lent = FALSE

\* The owner changes one unit.
Edit ==
  /\ ~lent
  /\ \E u \in Units, s \in Setting :
       /\ reg' = [reg EXCEPT ![u] = s]
       /\ own' = [own EXCEPT ![u] = s]
  /\ UNCHANGED lent

Borrow ==
  /\ ~lent
  /\ lent' = TRUE
  /\ UNCHANGED <<reg, own>>

\* The session changes one unit.
Use ==
  /\ lent
  /\ \E u \in Units, s \in Setting : reg' = [reg EXCEPT ![u] = s]
  /\ UNCHANGED <<own, lent>>

GiveBack ==
  /\ lent
  /\ reg = own
  /\ lent' = FALSE
  /\ UNCHANGED <<reg, own>>

Next == Edit \/ Borrow \/ Use \/ GiveBack

Spec == Init /\ [][Next]_loan
=============================================================================
