---------------------------- MODULE MainsToggle ----------------------------
(***************************************************************************)
(* The charge_from_mains switch (serve/controls.go) and what the hub       *)
(* remembers for it (serve/hub.go, SaveMainsChargeCurrent and its kin).    *)
(* The switch is off when the AC charge current limit of the inverter is   *)
(* 0; turning it off saves the limit the hub last read, turning it on      *)
(* writes what was saved.  The limit is also a number anybody may set.     *)
(*                                                                         *)
(* Each command runs in a goroutine of its own (serve/mqtt.go, serve/      *)
(* web.go): it chooses the value it writes when it begins, and the hub's   *)
(* run loop writes it when its turn comes, in any order.                   *)
(***************************************************************************)
EXTENDS Integers

CONSTANTS
  Commands,         \* goroutines that perform a command each, one after the other
  Limits,           \* limits the inverter may start with or be given elsewhere, in 0.1 A
  NumberLimits,     \* limits that are set as a number, in 0.1 A
  DefaultLimit,     \* defaultMainsChargeCurrent, 600 in the code
  NoLimit

ASSUME ToggleAssumption ==
  /\ Limits \subseteq Nat /\ NumberLimits \subseteq Nat /\ DefaultLimit \in Nat \ {0}
  /\ NoLimit \notin Nat

VARIABLES
  limit,            \* the inverter's register
  lastRead,         \* the limit in Hub.settings, NoLimit before it is first read
  prev,             \* Hub.prevMainsChargeCurrent, in 0.1 A
  prevInit,         \* Hub.prevMainsChargeCurrentInit
  hand,             \* what each command is about to write
  read              \* history: the limits above 0 that the hub has read

toggleVars == <<limit, lastRead, prev, prevInit, hand, read>>

NoCommand == [kind |-> "none"]

\* The formats "%.0f": to a whole number, halves to the even one.
RoundedLimit(tenths) ==
  LET whole == tenths \div 10
      rest  == tenths % 10
  IN  10 * (IF rest > 5 \/ (rest = 5 /\ whole % 2 = 1) THEN whole + 1 ELSE whole)

Given  == Limits \cup NumberLimits \cup {DefaultLimit, 0}
Values == Given \cup {RoundedLimit(v) : v \in Given}

ToggleTypeOK ==
  /\ limit \in Values
  /\ lastRead \in Values \cup {NoLimit}
  /\ prev \in Values \cup {NoLimit}
  /\ prevInit \in BOOLEAN
  /\ hand \in [Commands -> {NoCommand} \cup [kind : {"on", "off", "number"}, val : Values]]
  /\ read \subseteq Values

ToggleInit ==
  /\ limit \in Limits
  /\ lastRead = NoLimit /\ read = {}
  /\ prev = NoLimit /\ prevInit = FALSE
  /\ hand = [c \in Commands |-> NoCommand]

-----------------------------------------------------------------------------
\* What the hub reads is what it shows.
Reads(v) ==
  /\ lastRead' = v
  /\ read' = read \cup ({v} \ {0})

Begin(c, kind, v) ==
  /\ hand[c] = NoCommand
  /\ hand' = [hand EXCEPT ![c] = [kind |-> kind, val |-> v]]

Saved(v) == IF v > 0 THEN RoundedLimit(v) ELSE prev

Off(c) ==
  /\ Begin(c, "off", 0)
  /\ \/ lastRead = NoLimit /\ UNCHANGED <<prev, prevInit>>
     \/ lastRead # NoLimit /\ prev' = Saved(lastRead) /\ prevInit' = TRUE
  /\ UNCHANGED <<limit, lastRead, read>>

\* Mutant: the fall-back is left out.
RestoreOnlySaved == IF prev = NoLimit THEN 0 ELSE prev

\* RestoreMainsChargeCurrent.
Restore == IF prev = NoLimit THEN DefaultLimit ELSE prev

On(c) ==
  /\ Begin(c, "on", Restore)
  /\ UNCHANGED <<limit, lastRead, prev, prevInit, read>>

SetNumber(c) ==
  /\ \E v \in NumberLimits : Begin(c, "number", v)
  /\ UNCHANGED <<limit, lastRead, prev, prevInit, read>>

\* InitMainsChargeCurrent, whenever the settings are published.
InitPrevious ==
  /\ ~prevInit /\ lastRead # NoLimit
  /\ prevInit' = TRUE
  /\ prev' = Saved(lastRead)
  /\ UNCHANGED <<limit, lastRead, hand, read>>

\* handleWrite, which reads the settings again only when the write succeeds; a
\* write that fails may have changed the register.
CommandWrites(c) ==
  /\ hand[c] # NoCommand
  /\ hand' = [hand EXCEPT ![c] = NoCommand]
  /\ \/ /\ limit' = hand[c].val
        /\ Reads(hand[c].val) \/ UNCHANGED <<lastRead, read>>
     \/ UNCHANGED <<limit, lastRead, read>>
  /\ UNCHANGED <<prev, prevInit>>

\* The settings ticker.
ToggleRefresh ==
  /\ Reads(limit)
  /\ UNCHANGED <<limit, prev, prevInit, hand>>

\* The inverter's own panel, or another controller.
SetElsewhere ==
  /\ limit' \in Limits
  /\ UNCHANGED <<lastRead, prev, prevInit, hand, read>>

ToggleNext ==
  \/ \E c \in Commands : Off(c) \/ On(c) \/ SetNumber(c) \/ CommandWrites(c)
  \/ InitPrevious \/ ToggleRefresh \/ SetElsewhere

ToggleSpec == ToggleInit /\ [][ToggleNext]_toggleVars

-----------------------------------------------------------------------------
(***************************************************************************)
(* Properties.                                                             *)
(***************************************************************************)

\* Turning the switch on never writes 0, so that it is never a second OFF, unless the hub
\* has read a limit of at most half an ampere, which "%.0f" saves as "0" (hub.go:188-197:
\* "A zero value is not saved (restoring zero would be a no-op OFF)").
OnMeansOn ==
  \A c \in Commands : hand[c] # NoCommand /\ hand[c].kind = "on" =>
    hand[c].val > 0 \/ \E v \in read : RoundedLimit(v) = 0

\* What the switch restores was the limit once, to the ampere, or is the default:
\* it saves what the hub has read and nothing else, however OFF, the number and
\* the reads interleave (hub.go:191-197).
RestoresARead ==
  \A c \in Commands : hand[c] # NoCommand /\ hand[c].kind = "on" =>
    hand[c].val \in {DefaultLimit} \cup {RoundedLimit(v) : v \in read}

\* What the switch promises whoever turns it on.
ToggleSound == ToggleTypeOK /\ OnMeansOn /\ RestoresARead
=============================================================================
